---- MODULE Spec2Model ----
(***************************************************************************)
(* A model of the reconstruction engine of js-arias/evs: the per-node      *)
(* records of a reconstruction (events.Recons), the four event costs, the  *)
(* down-pass, the OR constructor, and the flip search that drives them.    *)
(*                                                                         *)
(* Representation.                                                         *)
(*  - A bitfield ([]uint16) is the set of its on bits.                     *)
(*  - A tree is a record of 1-based tuples read with 0-based node indices; *)
(*    the pointers Anc, First and Sister are node indices, nil is Nil.     *)
(*  - A cost (float64) is an integer number of halves: ToCost(k) is the    *)
(*    float64 k.  Branch lengths and the size denominators are 1 or 2, so  *)
(*    every quotient the program forms is an exact number of halves and    *)
(*    the float64 arithmetic of the program is exact on these inputs.      *)
(***************************************************************************)
EXTENDS Integers, Sequences, FiniteSets, TLC

\* ------------------------------------------------------------ events
Undef == 0
Vic == 1
SympU == 2
SympL == 3
SympR == 4
PointL == 5
PointR == 6
FoundL == 7
FoundR == 8

\* events.Events(): the event slice, in the order of the source.
Events == <<Vic, SympU, SympL, SympR, PointL, PointR, FoundL, FoundR>>

\* A nil pointer, and the -1 that marks a node without assigned sets.
Nil == -1

\* ------------------------------------------------------------ bounds
\* The pixels (bits) of the raster: a row of three adjacent pixels.
Pixels == 0 .. 2

\* The largest number of (terminal, pixel) occurrences of a data set.
MaxRecords == 3

\* The number of workers of a tree (-p) and of replicates of a worker (-r).
NumProc == 2

NumReps == 2

\* ------------------------------------------------------------ bitfield
Count(f) == Cardinality(f)

Common(f, b) == Cardinality(f \cap b)

Union(f, b) == f \cup b

Reset(f) == {}

\* copy(dst, src) on two bitfields of the same width.
CopyBits(dst, src) == src

\* Bitfield.Equal is not part of the sources at hand: two bitfields are
\* equal when they hold the same bits.
Equal(f, b) == f = b

\* ------------------------------------------------------------ fields
\* The bitfield of the source, field by field: a Bitfield is a sequence of
\* uint16 values, field i of the source is position i + 1.
BitsPerField == 16

\* The values of a field.
FieldSize == 65536

\* 1 << s
RECURSIVE Shift(_)
Shift(s) == IF s = 0 THEN 1 ELSE 2 * Shift(s - 1)

\* x & y and x | y on the low k bits of two fields.
RECURSIVE AndBits(_, _, _)
AndBits(x, y, k) ==
  IF k = 0 THEN 0
  ELSE (IF x % 2 = 1 /\ y % 2 = 1 THEN 1 ELSE 0)
       + 2 * AndBits(x \div 2, y \div 2, k - 1)

RECURSIVE OrBits(_, _, _)
OrBits(x, y, k) ==
  IF k = 0 THEN 0
  ELSE (IF x % 2 = 1 \/ y % 2 = 1 THEN 1 ELSE 0)
       + 2 * OrBits(x \div 2, y \div 2, k - 1)

\* bitCount[i], as init sets it: the number of j < BitsPerField, from j on,
\* with (i & (1 << j)) != 0.
RECURSIVE bitCountFrom(_, _)
bitCountFrom(i, j) ==
  IF j >= BitsPerField THEN 0
  ELSE (IF AndBits(i, Shift(j), BitsPerField) # 0 THEN 1 ELSE 0)
       + bitCountFrom(i, j + 1)

bitCount(i) == bitCountFrom(i, 0)

\* Bitfield.IsOn
IsOn(f, b) ==
  AndBits(f[(b \div BitsPerField) + 1],
          Shift((b % FieldSize) % BitsPerField), BitsPerField) # 0

\* Bitfield.PutOn
PutOn(f, b) ==
  [f EXCEPT ![(b \div BitsPerField) + 1] =
     OrBits(@, Shift((b % FieldSize) % BitsPerField), BitsPerField)]

\* Bitfield.Union, Common and Count on the fields.
FieldUnion(f, b) ==
  [i \in DOMAIN f |-> IF i \in DOMAIN b THEN OrBits(f[i], b[i], BitsPerField)
                      ELSE f[i]]

\* Common that looks at the first field only.
FieldCommonFirst(f, b) == bitCount(AndBits(f[1], b[1], BitsPerField))

RECURSIVE commonFrom(_, _, _)
commonFrom(f, b, i) ==
  IF i > Len(b) THEN 0
  ELSE bitCount(AndBits(f[i], b[i], BitsPerField)) + commonFrom(f, b, i + 1)

FieldCommon(f, b) == commonFrom(f, b, 1)

RECURSIVE countFrom(_, _)
countFrom(f, i) ==
  IF i > Len(f) THEN 0 ELSE bitCount(f[i]) + countFrom(f, i + 1)

FieldCount(f) == countFrom(f, 1)

\* ------------------------------------------------------------ costs
\* float64(k), counted in halves.
ToCost(k) == k + k

\* c / d for a float64 c and a denominator d (1 or 2 in every input used).
Quot(c, d) == c \div d

\* ------------------------------------------------------------ trees
\* The trees of the model.  Node i of a tree is position i + 1 of each tuple.
\* t1: (a,b)   t2: ((a,b),c)   t3: (a,(b,c))   t4: (a,b,c)
\* t5: a table tree: the root has the node (a,b) and an empty childless node.
\* T1: a second copy of the shape of t2 whose ID differs from t1 by case only.
Trees ==
  [ k \in 1 .. 6 |->
    CASE k = 1 -> [ID |-> "t1", Anc |-> <<Nil, 0, 0>>,
                   Term |-> <<"", "a", "b">>, Len |-> <<1, 1, 2>>,
                   NodeID |-> <<"0", "1", "2">>]
      [] k = 2 -> [ID |-> "t2", Anc |-> <<Nil, 0, 1, 1, 0>>,
                   Term |-> <<"", "", "a", "b", "c">>, Len |-> <<1, 2, 1, 1, 2>>,
                   NodeID |-> <<"0", "1", "2", "3", "4">>]
      [] k = 3 -> [ID |-> "t3", Anc |-> <<Nil, 0, 0, 2, 2>>,
                   Term |-> <<"", "a", "", "b", "c">>, Len |-> <<1, 2, 1, 1, 1>>,
                   NodeID |-> <<"0", "1", "2", "3", "4">>]
      [] k = 4 -> [ID |-> "t4", Anc |-> <<Nil, 0, 0, 0>>,
                   Term |-> <<"", "a", "b", "c">>, Len |-> <<1, 1, 2, 1>>,
                   NodeID |-> <<"0", "1", "2", "3">>]
      [] k = 5 -> [ID |-> "t5", Anc |-> <<Nil, 0, 1, 1, 0>>,
                   Term |-> <<"", "", "a", "b", "">>, Len |-> <<1, 1, 2, 1, 1>>,
                   NodeID |-> <<"r", "x", "na", "nb", "e">>]
      [] k = 6 -> [ID |-> "T1", Anc |-> <<Nil, 0, 1, 1, 0>>,
                   Term |-> <<"", "", "a", "b", "c">>, Len |-> <<1, 1, 1, 1, 1>>,
                   NodeID |-> <<"0", "1", "2", "3", "4">>] ]

TaxonNames == {"a", "b", "c"}

NumNodes(t) == Len(t.Anc)

Nodes(t) == 0 .. (NumNodes(t) - 1)

MinOf(S) == CHOOSE x \in S : \A y \in S : x <= y

\* tree.Node.Anc, .First, .Sister, .Term, .Len, .ID
AncOf(t, i) == t.Anc[i + 1]

First(t, i) ==
  LET ch == {j \in Nodes(t) : AncOf(t, j) = i}
  IN  IF ch = {} THEN Nil ELSE MinOf(ch)

Sister(t, i) ==
  LET ch == {j \in Nodes(t) : j > i /\ AncOf(t, j) = AncOf(t, i)}
  IN  IF ch = {} THEN Nil ELSE MinOf(ch)

TermOf(t, i) == t.Term[i + 1]

LenOf(t, i) == t.Len[i + 1]

IDOf(t, i) == t.NodeID[i + 1]

\* ------------------------------------------------------------ raster
\* The rasterized taxon over a row of adjacent pixels: Obs is the observed
\* pixels, Fill adds the pixels of the raster (those with a record of some
\* taxon) at most fill columns away.
RasterTaxon(obs, fill, known) ==
  [Obs  |-> obs,
   Fill |-> {b \in known : \E o \in obs : b - o <= fill /\ o - b <= fill}]

\* Whether Raster.Taxon finds the name: a name with no records is not in
\* the raster, and Taxon returns nil.
HasTaxon(ras, name) == name \in DOMAIN ras.Obs /\ ras.Obs[name] # {}

\* Raster.Taxon, for a name it finds.
Taxon(ras, name) ==
  RasterTaxon(ras.Obs[name], ras.Fill,
              UNION {ras.Obs[x] : x \in DOMAIN ras.Obs})

\* ------------------------------------------------------------ rasterize
\* biogeo.MinLon, MaxLon, MinLat, MaxLat: a valid point has its longitude
\* in (MinLon, MaxLon] and its latitude in [MinLat, MaxLat].
MinLon == -180

MaxLon == 180

MinLat == -90

MaxLat == 90

\* GeoRef.IsValid
IsValid(g) ==
  ~(g.Lon <= MinLon \/ g.Lon > MaxLon) /\ ~(g.Lat < MinLat \/ g.Lat > MaxLat)

\* Raster.Resol, in degrees, for a number of columns that divides 360.
Resol(cols) == 360 \div cols

\* The column, the row and the pixel of a point (Rasterize, rasterize).
colOf(cols, g) == (180 + g.Lon) \div Resol(cols)

rowOf(cols, g) == (90 - g.Lat) \div Resol(cols)

pixelOf(cols, g) == (rowOf(cols, g) * cols) + colOf(cols, g)

\* The records of the taxa of a data set from taxon k on, in the order of
\* d.Ls and of the records of each taxon.
RECURSIVE recsFrom(_, _)
recsFrom(d, k) ==
  IF k > Len(d) THEN <<>> ELSE d[k].Recs \o recsFrom(d, k + 1)

\* Rasterize, the loop that gives a bit to every pixel with a record: pix
\* holds the pixels in the order of their bits (bit b is pix[b + 1]).
RECURSIVE pixelsFrom(_, _, _, _)
pixelsFrom(cols, recs, k, pix) ==
  IF k > Len(recs) THEN pix
  ELSE pixelsFrom(cols, recs, k + 1,
         IF \E b \in DOMAIN pix : pix[b] = pixelOf(cols, recs[k]) THEN pix
         ELSE Append(pix, pixelOf(cols, recs[k])))

\* ras.Pixel[px]: whether the pixel has a bit, and the bit.
HasPixel(pix, px) == \E b \in DOMAIN pix : pix[b] = px

BitOf(pix, px) == (CHOOSE b \in DOMAIN pix : pix[b] = px) - 1

\* rasterize, the column x of the fill loop for column c and offset i.
fillCol(cols, c, i) ==
  IF c - i < 0 THEN c - i + cols
  ELSE IF c - i >= cols THEN c - i - cols
  ELSE c - i

\* rasterize, the bits that the fill loops put on for a record of column c
\* and row r.
fillBits(cols, fill, pix, c, r) ==
  {BitOf(pix, ((r - j) * cols) + fillCol(cols, c, i)) :
     <<i, j>> \in {y \in ((0 - fill) .. fill) \X ((0 - fill) .. fill) :
                     /\ r - y[2] >= 0
                     /\ HasPixel(pix, ((r - y[2]) * cols)
                                        + fillCol(cols, c, y[1]))}}

\* rasterize, the loop over the records of a taxon from record k on.
RECURSIVE rasterizeFrom(_, _, _, _, _, _)
rasterizeFrom(cols, fill, pix, recs, k, t) ==
  IF k > Len(recs) THEN t
  ELSE rasterizeFrom(cols, fill, pix, recs, k + 1,
         IF BitOf(pix, pixelOf(cols, recs[k])) \in t.Obs THEN t
         ELSE [t EXCEPT
                 !.Obs  = @ \cup {BitOf(pix, pixelOf(cols, recs[k]))},
                 !.Fill = @ \cup fillBits(cols, fill, pix,
                                          colOf(cols, recs[k]),
                                          rowOf(cols, recs[k]))])

\* Rasterize: the raster of data set d with cols columns and the fill.
Rasterize(d, cols, fill) ==
  [Cols  |-> cols,
   Fill  |-> fill,
   Pixel |-> pixelsFrom(cols, recsFrom(d, 1), 1, <<>>),
   Names |-> [k \in DOMAIN d |->
                rasterizeFrom(cols, fill,
                              pixelsFrom(cols, recsFrom(d, 1), 1, <<>>),
                              d[k].Recs, 1,
                              [Name |-> d[k].Name, Obs |-> {}, Fill |-> {}])]]

\* ------------------------------------------------------------ event costs
\* Recons.founder
founder(r, n, f) ==
  LET t     == Trees[r.Tree]
      comF  == Common(r.Rec[f].Obs, r.Rec[n].Fill)
      cellF == Count(r.Rec[f].Obs)
      onlyF == cellF - comF
      cell2 == IF onlyF = 0 THEN cellF + 2 ELSE cellF
      cost  == ToCost(cell2 + comF - 1)
      cost2 == IF r.UseLen THEN Quot(cost, LenOf(t, f)) ELSE cost
  IN  cost2 + r.FoundC

\* A point sympatry that adds the penalty when the point has no pixel
\* outside the ancestor, as founder does.
pointOutside(r, n, p) ==
  LET t     == Trees[r.Tree]
      comP  == Common(r.Rec[p].Obs, r.Rec[n].Fill)
      cellP == Count(r.Rec[p].Obs)
      onlyP == cellP - comP
      cell2 == IF onlyP = 0 THEN cellP + 2 ELSE cellP
      cost  == ToCost(cell2 + onlyP - 1)
      cost2 == IF r.UseLen THEN Quot(cost, LenOf(t, p)) ELSE cost
  IN  cost2 + r.PointC

\* Recons.point
point(r, n, p) ==
  LET t     == Trees[r.Tree]
      comP  == Common(r.Rec[p].Obs, r.Rec[n].Fill)
      cellP == Count(r.Rec[p].Obs)
      onlyP == cellP - comP
      cell2 == IF comP = 0 THEN cellP + 2 ELSE cellP
      cost  == ToCost(cell2 + onlyP - 1)
      cost2 == IF r.UseLen THEN Quot(cost, LenOf(t, p)) ELSE cost
  IN  cost2 + r.PointC

\* A full sympatry that leaves out what the ancestor has and the daughter
\* has not.
sympatryOnly(r, n) ==
  LET setL  == r.Rec[n].SetL
      setR  == r.Rec[n].SetR
      onlyL == Count(r.Rec[setL].Obs)
                 - Common(r.Rec[setL].Obs, r.Rec[n].Fill)
      onlyR == Count(r.Rec[setR].Obs)
                 - Common(r.Rec[setR].Obs, r.Rec[n].Fill)
  IN  ToCost(onlyL) + ToCost(onlyR) + r.SympC

\* Recons.sympatry
sympatry(r, n) ==
  LET t     == Trees[r.Tree]
      setL  == r.Rec[n].SetL
      setR  == r.Rec[n].SetR
      cellN == Count(r.Rec[n].Obs)
      cellL == Count(r.Rec[setL].Obs)
      onlyL == cellL - Common(r.Rec[setL].Obs, r.Rec[n].Fill)
      notL  == cellN - Common(r.Rec[n].Obs, r.Rec[setL].Fill)
      costL == ToCost(onlyL + notL)
      cellR == Count(r.Rec[setR].Obs)
      onlyR == cellR - Common(r.Rec[setR].Obs, r.Rec[n].Fill)
      notR  == cellN - Common(r.Rec[n].Obs, r.Rec[setR].Fill)
      costR == ToCost(onlyR + notR)
      lenL  == IF r.UseLen THEN Quot(costL, LenOf(t, setL)) ELSE costL
      lenR  == IF r.UseLen THEN Quot(costR, LenOf(t, setR)) ELSE costR
      extra == IF r.SympSize > 0
               THEN Quot(ToCost(Count(r.Rec[n].Obs)), r.SympSize)
               ELSE 0
  IN  lenL + lenR + r.SympC + extra

\* Recons.vicariance
vicariance(r, n) ==
  LET t     == Trees[r.Tree]
      setL  == r.Rec[n].SetL
      setR  == r.Rec[n].SetR
      cellL == Count(r.Rec[setL].Obs)
      comL  == Common(r.Rec[setL].Obs, r.Rec[setR].Fill)
      onlyL == cellL - comL
      cellR == Count(r.Rec[setR].Obs)
      comR  == Common(r.Rec[setR].Obs, r.Rec[setL].Fill)
      onlyR == cellR - comR
      adj   == IF onlyL = 0 \/ onlyR = 0
               THEN IF onlyL # 0 THEN <<comL, comR + 1>>
                    ELSE IF onlyR # 0 THEN <<comL + 1, comR>>
                    ELSE <<comL + 1, comR + 1>>
               ELSE <<comL, comR>>
      costL == ToCost(adj[1])
      costR == ToCost(adj[2])
      lenL  == IF r.UseLen THEN Quot(costL, LenOf(t, setL)) ELSE costL
      lenR  == IF r.UseLen THEN Quot(costR, LenOf(t, setR)) ELSE costR
  IN  lenL + lenR + r.VicC

\* The size penalty of node n: (Count(Obs) - 1) / Size, times the length of
\* the branch with UseLen.
sizeCost(r, n) ==
  LET csz == Quot(ToCost(Count(r.Rec[n].Obs) - 1), r.Size)
  IN  IF r.UseLen THEN csz * LenOf(Trees[r.Tree], n) ELSE csz

\* ------------------------------------------------------------ down-pass
\* The loop of optimize over the descendants of a node that is not
\* optimizable: add the descendants, from desc on.
RECURSIVE addDesc(_, _, _)
addDesc(r, n, desc) ==
  IF desc = Nil THEN r
  ELSE addDesc([r EXCEPT !.Rec[n].Obs  = Union(@, r.Rec[desc].Obs),
                         !.Rec[n].Fill = Union(@, r.Rec[desc].Fill),
                         !.Rec[n].Cost = @ + r.Rec[desc].Cost],
               n, Sister(Trees[r.Tree], desc))

\* An assignment of the range that gives the node the range of both
\* daughters whatever the event is.
assignUnion(r, n) ==
  [r EXCEPT !.Rec[n].Obs  = Union(r.Rec[r.Rec[n].SetL].Obs,
                                  r.Rec[r.Rec[n].SetR].Obs),
            !.Rec[n].Fill = Union(r.Rec[r.Rec[n].SetL].Fill,
                                  r.Rec[r.Rec[n].SetR].Fill)]

\* The ancestral range of node n under its Flag: the bitfields copied from
\* SetL, from SetR, or from both.
assignRange(r, n) ==
  LET setL == r.Rec[n].SetL
      setR == r.Rec[n].SetR
      flag == r.Rec[n].Flag
      fromL == [r EXCEPT !.Rec[n].Obs  = CopyBits(@, r.Rec[setL].Obs),
                         !.Rec[n].Fill = CopyBits(@, r.Rec[setL].Fill)]
      fromR == [r EXCEPT !.Rec[n].Obs  = CopyBits(@, r.Rec[setR].Obs),
                         !.Rec[n].Fill = CopyBits(@, r.Rec[setR].Fill)]
      both  == [fromL EXCEPT !.Rec[n].Obs  = Union(@, r.Rec[setR].Obs),
                             !.Rec[n].Fill = Union(@, r.Rec[setR].Fill)]
  IN  CASE flag = Vic    -> both
        [] flag = SympU  -> both
        [] flag = SympL  -> fromL
        [] flag = SympR  -> fromR
        [] flag = PointL -> fromR
        [] flag = PointR -> fromL
        [] flag = FoundL -> fromR
        [] flag = FoundR -> fromL
        [] OTHER         -> r

\* The cost of the event of node n, once its range is assigned.
eventCost(r, n) ==
  LET setL == r.Rec[n].SetL
      setR == r.Rec[n].SetR
      flag == r.Rec[n].Flag
  IN  CASE flag = Vic    -> vicariance(r, n)
        [] flag = SympU  -> sympatry(r, n)
        [] flag = SympL  -> sympatry(r, n)
        [] flag = SympR  -> sympatry(r, n)
        [] flag = PointL -> point(r, n, setL)
        [] flag = PointR -> point(r, n, setR)
        [] flag = FoundL -> founder(r, n, setL)
        [] flag = FoundR -> founder(r, n, setR)
        [] OTHER         -> 0

\* An optimize that does not reset the node before it adds the descendants
\* of a node that is not optimizable.
optimizeNoReset(r, n) ==
  LET t == Trees[r.Tree]
  IN  IF First(t, n) = Nil THEN r
      ELSE IF r.Rec[n].SetL = -1 \/ r.Rec[n].Flag = Undef
      THEN addDesc(r, n, First(t, n))
      ELSE LET setL == r.Rec[n].SetL
               setR == r.Rec[n].SetR
               r1   == assignRange(r, n)
               ev   == r.Rec[n].Cost + r.Rec[setL].Cost + r.Rec[setR].Cost
                       + eventCost(r1, n)
           IN  [r1 EXCEPT !.Rec[n].Cost = ev]

\* An optimize that does not ignore the terminals.
optimizeTerminals(r, n) ==
  LET t  == Trees[r.Tree]
      r0 == [r EXCEPT !.Rec[n].Obs  = Reset(@),
                      !.Rec[n].Fill = Reset(@),
                      !.Rec[n].Cost = 0]
  IN  IF r0.Rec[n].SetL = -1 \/ r0.Rec[n].Flag = Undef
      THEN addDesc(r0, n, First(t, n))
      ELSE LET setL == r0.Rec[n].SetL
               setR == r0.Rec[n].SetR
               cost == r0.Rec[setL].Cost + r0.Rec[setR].Cost
               r1   == assignRange(r0, n)
               ev   == cost + eventCost(r1, n)
               full == IF r1.Size > 0 THEN ev + sizeCost(r1, n) ELSE ev
           IN  [r1 EXCEPT !.Rec[n].Cost = full]

\* Recons.optimize
optimize(r, n) ==
  LET t  == Trees[r.Tree]
      r0 == [r EXCEPT !.Rec[n].Obs  = Reset(@),
                      !.Rec[n].Fill = Reset(@),
                      !.Rec[n].Cost = 0]
  IN  IF First(t, n) = Nil THEN r
      ELSE IF r0.Rec[n].SetL = -1 \/ r0.Rec[n].Flag = Undef
      THEN addDesc(r0, n, First(t, n))
      ELSE LET setL == r0.Rec[n].SetL
               setR == r0.Rec[n].SetR
               cost == r0.Rec[setL].Cost + r0.Rec[setR].Cost
               r1   == assignRange(r0, n)
               ev   == cost + eventCost(r1, n)
               full == IF r1.Size > 0 THEN ev + sizeCost(r1, n) ELSE ev
           IN  [r1 EXCEPT !.Rec[n].Cost = full]

\* A down-pass that optimizes node v and stops there.
DownPassOneNode(r, v) == IF v = Nil THEN r ELSE optimize(r, v)

\* Recons.DownPass: optimize from node v to the root; the reconstruction it
\* leaves.  The value the program returns is Cost of the result.
RECURSIVE DownPass(_, _)
DownPass(r, v) ==
  IF v = Nil THEN r
  ELSE DownPass(optimize(r, v), AncOf(Trees[r.Tree], v))

\* Recons.Cost
Cost(r) == r.Rec[0].Cost

\* r.Rec[n].Flag = e, then r.DownPass(n): the step of every caller that
\* changes an event.
SetFlag(r, n, e) == DownPass([r EXCEPT !.Rec[n].Flag = e], n)

\* ------------------------------------------------------------ OR
\* The loop of OR over the descendants with every descendant taken as an
\* effective one, with records or not.
RECURSIVE orDescAll(_, _, _, _)
orDescAll(rec, t, desc, acc) ==
  IF desc = Nil THEN acc
  ELSE orDescAll(rec, t, Sister(t, desc),
         [acc EXCEPT !.Obs  = Union(@, rec[desc].Obs),
                     !.Fill = Union(@, rec[desc].Fill),
                     !.Cost = @ + rec[desc].Cost,
                     !.setL = IF acc.setL = Nil THEN desc ELSE @,
                     !.setR = IF acc.setL # Nil /\ acc.setR = Nil
                              THEN desc ELSE @,
                     !.numDesc = @ + 1])

\* The loop of OR over the descendants of node i: acc holds the record of
\* the node and setL, setR, numDesc.
RECURSIVE orDesc(_, _, _, _)
orDesc(rec, t, desc, acc) ==
  IF desc = Nil THEN acc
  ELSE LET a1 == [acc EXCEPT !.Obs  = Union(@, rec[desc].Obs),
                             !.Fill = Union(@, rec[desc].Fill),
                             !.Cost = @ + rec[desc].Cost]
           a2 == IF Count(rec[desc].Obs) = 0 THEN a1
                 ELSE [a1 EXCEPT
                         !.setL = IF a1.setL = Nil THEN desc ELSE @,
                         !.setR = IF a1.setL # Nil /\ a1.setR = Nil
                                  THEN desc ELSE @,
                         !.numDesc = @ + 1]
       IN  orDesc(rec, t, Sister(t, desc), a2)

\* A turn of the loop of OR that takes Vic when the two costs are equal.
orNodeTieVic(or, ras, i) ==
  LET t    == Trees[or.Tree]
      base == [Obs |-> {}, Fill |-> {}, SetL |-> -1, SetR |-> -1,
               Cost |-> 0, Flag |-> Undef]
  IN
  IF TermOf(t, i) # ""
  THEN IF ~HasTaxon(ras, TermOf(t, i)) THEN [or EXCEPT !.Rec[i] = base]
       ELSE LET tx == Taxon(ras, TermOf(t, i))
                o1 == [or EXCEPT !.Rec[i] =
                         [base EXCEPT !.Obs = CopyBits(@, tx.Obs),
                                      !.Fill = CopyBits(@, tx.Fill)]]
            IN  IF o1.Size > 0
                THEN [o1 EXCEPT !.Rec[i].Cost = sizeCost(o1, i)]
                ELSE o1
  ELSE LET acc == orDesc(or.Rec, t, First(t, i),
                         [Obs |-> {}, Fill |-> {}, Cost |-> 0,
                          setL |-> Nil, setR |-> Nil, numDesc |-> 0])
           o1  == [or EXCEPT !.Rec[i] =
                     [base EXCEPT !.Obs = acc.Obs, !.Fill = acc.Fill,
                                  !.Cost = acc.Cost]]
       IN  IF acc.numDesc # 2 THEN o1
           ELSE LET o2  == [o1 EXCEPT !.Rec[i].SetL = acc.setL,
                                      !.Rec[i].SetR = acc.setR]
                    csz == IF o2.Size > 0 THEN sizeCost(o2, i) ELSE 0
                    cv  == vicariance(o2, i) + csz
                    cs  == sympatry(o2, i) + csz
                IN  IF cv <= cs
                    THEN [o2 EXCEPT !.Rec[i].Flag = Vic,
                                    !.Rec[i].Cost = @ + cv]
                    ELSE [o2 EXCEPT !.Rec[i].Flag = SympU,
                                    !.Rec[i].Cost = @ + cs]

\* A turn of the loop of OR that leaves the size penalty out of the cost
\* of a node with an event.
orNodeNoSize(or, ras, i) ==
  LET t    == Trees[or.Tree]
      base == [Obs |-> {}, Fill |-> {}, SetL |-> -1, SetR |-> -1,
               Cost |-> 0, Flag |-> Undef]
  IN
  IF TermOf(t, i) # ""
  THEN IF ~HasTaxon(ras, TermOf(t, i)) THEN [or EXCEPT !.Rec[i] = base]
       ELSE LET tx == Taxon(ras, TermOf(t, i))
                o1 == [or EXCEPT !.Rec[i] =
                         [base EXCEPT !.Obs = CopyBits(@, tx.Obs),
                                      !.Fill = CopyBits(@, tx.Fill)]]
            IN  IF o1.Size > 0
                THEN [o1 EXCEPT !.Rec[i].Cost = sizeCost(o1, i)]
                ELSE o1
  ELSE LET acc == orDesc(or.Rec, t, First(t, i),
                         [Obs |-> {}, Fill |-> {}, Cost |-> 0,
                          setL |-> Nil, setR |-> Nil, numDesc |-> 0])
           o1  == [or EXCEPT !.Rec[i] =
                     [base EXCEPT !.Obs = acc.Obs, !.Fill = acc.Fill,
                                  !.Cost = acc.Cost]]
       IN  IF acc.numDesc # 2 THEN o1
           ELSE LET o2  == [o1 EXCEPT !.Rec[i].SetL = acc.setL,
                                      !.Rec[i].SetR = acc.setR]
                    cv  == vicariance(o2, i)
                    cs  == sympatry(o2, i)
                IN  IF cv < cs
                    THEN [o2 EXCEPT !.Rec[i].Flag = Vic,
                                    !.Rec[i].Cost = @ + cv]
                    ELSE [o2 EXCEPT !.Rec[i].Flag = SympU,
                                    !.Rec[i].Cost = @ + cs]

\* One turn of the loop of OR: the record of node i, the records of the
\* nodes after i being set.
orNode(or, ras, i) ==
  LET t    == Trees[or.Tree]
      base == [Obs |-> {}, Fill |-> {}, SetL |-> -1, SetR |-> -1,
               Cost |-> 0, Flag |-> Undef]
  IN
  IF TermOf(t, i) # ""
  THEN IF ~HasTaxon(ras, TermOf(t, i)) THEN [or EXCEPT !.Rec[i] = base]
       ELSE LET tx == Taxon(ras, TermOf(t, i))
                o1 == [or EXCEPT !.Rec[i] =
                         [base EXCEPT !.Obs = CopyBits(@, tx.Obs),
                                      !.Fill = CopyBits(@, tx.Fill)]]
            IN  IF o1.Size > 0
                THEN [o1 EXCEPT !.Rec[i].Cost = sizeCost(o1, i)]
                ELSE o1
  ELSE LET acc == orDesc(or.Rec, t, First(t, i),
                         [Obs |-> {}, Fill |-> {}, Cost |-> 0,
                          setL |-> Nil, setR |-> Nil, numDesc |-> 0])
           o1  == [or EXCEPT !.Rec[i] =
                     [base EXCEPT !.Obs = acc.Obs, !.Fill = acc.Fill,
                                  !.Cost = acc.Cost]]
       IN  IF acc.numDesc # 2 THEN o1
           ELSE LET o2  == [o1 EXCEPT !.Rec[i].SetL = acc.setL,
                                      !.Rec[i].SetR = acc.setR]
                    csz == IF o2.Size > 0 THEN sizeCost(o2, i) ELSE 0
                    cv  == vicariance(o2, i) + csz
                    cs  == sympatry(o2, i) + csz
                IN  IF cv < cs
                    THEN [o2 EXCEPT !.Rec[i].Flag = Vic,
                                    !.Rec[i].Cost = @ + cv]
                    ELSE [o2 EXCEPT !.Rec[i].Flag = SympU,
                                    !.Rec[i].Cost = @ + cs]

RECURSIVE orLoop(_, _, _)
orLoop(or, ras, i) ==
  IF i < 0 THEN or ELSE orLoop(orNode(or, ras, i), ras, i - 1)

\* events.OR: the reconstruction of tree tk (a key of Trees) on raster ras.
\* The event costs are 1.
OR(ras, tk, size, sympSize, useLen) ==
  LET t   == Trees[tk]
      new == [ID |-> "or", Tree |-> tk,
              Rec |-> [i \in Nodes(t) |->
                         [Obs |-> {}, Fill |-> {}, SetL |-> 0, SetR |-> 0,
                          Cost |-> 0, Flag |-> Undef]],
              UseLen |-> useLen, Size |-> size, SympSize |-> sympSize,
              VicC |-> ToCost(1), SympC |-> ToCost(1),
              PointC |-> ToCost(1), FoundC |-> ToCost(1)]
  IN  orLoop(new, ras, NumNodes(t) - 1)

\* ------------------------------------------------------------ cost scalars
\* The update with no down-pass after the scalar is set.
passNone(r, fam, i) == r

\* The loop of the SetXCost methods: DownPass on every node, from i on,
\* whose Flag is in the family fam.
RECURSIVE passFamily(_, _, _)
passFamily(r, fam, i) ==
  IF i >= NumNodes(Trees[r.Tree]) THEN r
  ELSE passFamily(IF r.Rec[i].Flag \in fam THEN DownPass(r, i) ELSE r,
                  fam, i + 1)

\* Recons.SetVicCost
SetVicCost(r, c) ==
  IF r.VicC = c THEN r
  ELSE passFamily([r EXCEPT !.VicC = c], {Vic}, 0)

\* Recons.SetSympCost
SetSympCost(r, c) ==
  IF r.SympC = c THEN r
  ELSE passFamily([r EXCEPT !.SympC = c], SympU .. SympR, 0)

\* Recons.SetPointCost
SetPointCost(r, c) ==
  IF r.PointC = c THEN r
  ELSE passFamily([r EXCEPT !.PointC = c], {PointL, PointR}, 0)

\* Recons.SetFoundCost
SetFoundCost(r, c) ==
  IF r.FoundC = c THEN r
  ELSE passFamily([r EXCEPT !.FoundC = c], {FoundL, FoundR}, 0)

\* ------------------------------------------------------------ nodes
\* The optimizable nodes of a reconstruction (nodes of doFlip).
Optimizable(r) == {i \in DOMAIN r.Rec : r.Rec[i].SetL # -1}

\* The optimizable nodes in index order, from node i on (doFlip).
RECURSIVE nodesFrom(_, _)
nodesFrom(r0, i) ==
  IF i >= NumNodes(Trees[r0.Tree]) THEN <<>>
  ELSE IF r0.Rec[i].SetL # -1 THEN <<i>> \o nodesFrom(r0, i + 1)
  ELSE nodesFrom(r0, i + 1)

\* ------------------------------------------------------------ randomize
\* The percentage given to Randomize (the default of numRand).
numRand == 25

\* The values of rand.Intn(100) that are told apart.
Draws == {numRand, numRand + 1}

\* The loop of Randomize from node i on: draws[i] is the value of
\* rand.Intn(100) and picks[i] that of rand.Intn(len(evs)) for node i.
RECURSIVE randomizeFrom(_, _, _, _, _, _)
randomizeFrom(r, prob, evs, draws, picks, i) ==
  IF i >= NumNodes(Trees[r.Tree]) THEN r
  ELSE IF r.Rec[i].SetL = -1
       THEN randomizeFrom(r, prob, evs, draws, picks, i + 1)
  ELSE IF draws[i] > prob
       THEN randomizeFrom(r, prob, evs, draws, picks, i + 1)
  ELSE randomizeFrom(SetFlag(r, i, evs[picks[i] + 1]),
                     prob, evs, draws, picks, i + 1)

\* Recons.Randomize
Randomize(r, prob, evs, draws, picks) ==
  IF prob = 0 THEN r
  ELSE randomizeFrom(r, IF prob < 0 \/ prob > 100 THEN 10 ELSE prob,
                     evs, draws, picks, 0)

\* ------------------------------------------------------------ flip
\* shuffle: the slice after the turns i, i + 1, ... of its loop; js[i] is
\* the value of rand.Intn(len(v)) of turn i (positions count from 1 here).
RECURSIVE shuffleFrom(_, _, _)
shuffleFrom(v, js, i) ==
  IF i > Len(v) THEN v
  ELSE shuffleFrom([v EXCEPT ![i] = v[js[i]], ![js[i]] = v[i]], js, i + 1)

shuffle(v, js) == shuffleFrom(v, js, 1)

\* The rotations of a list.
Rotations(v) ==
  LET n == Len(v)
      rot(k) == [i \in 1 .. n |-> v[((i + k - 1) % n) + 1]]
  IN  {rot(k) : k \in 0 .. (n - 1)}

\* The arrangements shuffle may leave.  Every permutation of a list is one
\* of them; for a list of up to three elements all are taken (the draws js
\* are enumerated), for a longer list the rotations of the list, which put
\* every element first and every element last.
Shuffled(v) ==
  IF Len(v) <= 3
  THEN {shuffle(v, js) : js \in [1 .. Len(v) -> 1 .. Len(v)]}
  ELSE Rotations(v)

\* A loop over the events that tries the first event that is not the
\* previous one, and no other.
tryEventsOnce(r, n, prev, best, evs, k) ==
  IF k > Len(evs) THEN r
  ELSE IF evs[k] # prev THEN SetFlag(r, n, evs[k])
  ELSE IF k + 1 > Len(evs) THEN r
  ELSE SetFlag(r, n, evs[k + 1])

\* The loop of flipRecons over the events, from position k of evs on
\* (tryEvents), and the rest of a turn once the flip r1 is made and the
\* down-pass is run (tried): the reconstruction when the loop ends or breaks.
RECURSIVE tryEvents(_, _, _, _, _, _)
RECURSIVE tried(_, _, _, _, _, _)
tryEvents(r, n, prev, best, evs, k) ==
  IF k > Len(evs) THEN r
  ELSE IF evs[k] = prev THEN tryEvents(r, n, prev, best, evs, k + 1)
  ELSE tried(SetFlag(r, n, evs[k]), n, prev, best, evs, k)

tried(r1, n, prev, best, evs, k) ==
  IF Cost(r1) < best THEN r1
  ELSE tryEvents(r1, n, prev, best, evs, k + 1)

\* A turn that keeps a flip whose cost is not above best, and asks for
\* another pass.
keepOrEqual(r1, n, prev, best) ==
  IF Cost(r1) <= best
  THEN [r |-> r1, kept |-> TRUE]
  ELSE [r |-> SetFlag(r1, n, prev), kept |-> FALSE]

\* keepOrUndo without the two statements that undo a flip that is not kept.
keepNoUndo(r1, n, prev, best) == [r |-> r1, kept |-> Cost(r1) < best]

\* The end of a turn of the loop of flipRecons over the nodes, r1 left by
\* the loop over the events: the flip is kept when the cost is under best,
\* and undone otherwise.
keepOrUndo(r1, n, prev, best) ==
  IF Cost(r1) < best
  THEN [r |-> r1, kept |-> TRUE]
  ELSE [r |-> SetFlag(r1, n, prev), kept |-> FALSE]

\* One turn of the loop of flipRecons over the nodes: node n is examined
\* with the events in the order evs.
examineNode(r, n, best, evs) ==
  keepOrUndo(tryEvents(r, n, r.Rec[n].Flag, best, evs, 1),
             n, r.Rec[n].Flag, best)

\* The locals of flipRecons at its call on r: best is the root cost, nodes
\* the node list, idx the turn of the pass over the nodes.
flipCall(r, nodes) ==
  [pc |-> "shuffle", best |-> Cost(r), nodes |-> nodes, idx |-> 0]

\* The reconstruction and the locals after a turn that left x.
afterTurn(x, fl) ==
  [r  |-> x.r,
   fl |-> IF x.kept
          THEN [fl EXCEPT !.pc = "shuffle", !.best = Cost(x.r)]
          ELSE [fl EXCEPT !.idx = fl.idx + 1]]

\* The steps of flipRecons from the reconstruction r and the locals fl:
\* the head of the outer loop shuffles the nodes; a turn shuffles the
\* events (every arrangement can follow every other one, none is kept in
\* fl) and examines the next node, and a flip that is kept ends the pass
\* and asks for another one; a pass that kept no flip ends the call.
flipNext(r, fl, evs) ==
  IF fl.pc = "shuffle"
  THEN {[r |-> r, fl |-> [fl EXCEPT !.pc = "nodes", !.nodes = ns, !.idx = 1]] :
          ns \in Shuffled(fl.nodes)}
  ELSE IF fl.pc = "nodes" /\ fl.idx <= Len(fl.nodes)
  THEN {afterTurn(examineNode(r, fl.nodes[fl.idx], fl.best, es), fl) :
          es \in Shuffled(evs)}
  ELSE IF fl.pc = "nodes"
  THEN {[r |-> r, fl |-> [fl EXCEPT !.pc = "done", !.nodes = <<>>, !.idx = 0]]}
  ELSE {}

\* Every reconstruction and locals that the steps of flipRecons reach from
\* those of S and of New, the steps from those of S taken already.
RECURSIVE flipClosure(_, _, _)
flipClosure(S, New, evs) ==
  IF New = {} THEN S
  ELSE flipClosure(S \cup New,
                   (UNION {flipNext(x.r, x.fl, evs) : x \in New}) \ (S \cup New),
                   evs)

\* The reconstructions that calls of flipRecons can leave, over all the
\* arrangements the shuffles may leave, the calls made with the
\* reconstructions and locals of S.
flipLeaves(S, evs) ==
  {x.r : x \in {y \in flipClosure({}, S, evs) : y.fl.pc = "done"}}

\* flipRecons: the reconstructions the call can leave.
flipRecons(r, nodes, evs) ==
  flipLeaves({[r |-> r, fl |-> flipCall(r, nodes)]}, evs)

\* ------------------------------------------------------------ copies
\* Recons.MakeCopy: the fields of the new reconstruction.
MakeCopy(r) ==
  [ID |-> r.ID, Tree |-> r.Tree,
   Rec |-> [i \in DOMAIN r.Rec |->
              [Obs  |-> CopyBits({}, r.Rec[i].Obs),
               Fill |-> CopyBits({}, r.Rec[i].Fill),
               SetL |-> r.Rec[i].SetL, SetR |-> r.Rec[i].SetR,
               Cost |-> r.Rec[i].Cost, Flag |-> r.Rec[i].Flag]],
   UseLen |-> r.UseLen, Size |-> r.Size, VicC |-> r.VicC,
   SympC |-> r.SympC, FoundC |-> r.FoundC, PointC |-> r.PointC,
   SympSize |-> r.SympSize]

\* Recons.Copy: r with the content of cp (the same tree is required).
Copy(r, cp) ==
  [r EXCEPT !.ID = cp.ID, !.UseLen = cp.UseLen, !.Size = cp.Size,
            !.VicC = cp.VicC, !.SympC = cp.SympC, !.FoundC = cp.FoundC,
            !.PointC = cp.PointC, !.SympSize = cp.SympSize,
            !.Rec = [i \in DOMAIN cp.Rec |->
                       [Obs  |-> CopyBits(r.Rec[i].Obs, cp.Rec[i].Obs),
                        Fill |-> CopyBits(r.Rec[i].Fill, cp.Rec[i].Fill),
                        SetL |-> cp.Rec[i].SetL, SetR |-> cp.Rec[i].SetR,
                        Cost |-> cp.Rec[i].Cost, Flag |-> cp.Rec[i].Flag]]]

\* The events of sympatry.
IsSymp(e) == e >= SympU /\ e <= SympR

\* An IsDiff that compares the events as they are, the events of sympatry
\* as well.
IsDiffFlags(r, cp) ==
  \/ r.Tree # cp.Tree
  \/ \E i \in DOMAIN r.Rec :
       /\ First(Trees[r.Tree], i) # Nil
       /\ r.Rec[i].Flag # cp.Rec[i].Flag

\* Recons.IsDiff
IsDiff(r, cp) ==
  \/ r.Tree # cp.Tree
  \/ \E i \in DOMAIN r.Rec :
       /\ First(Trees[r.Tree], i) # Nil
       /\ IF IsSymp(r.Rec[i].Flag) /\ IsSymp(cp.Rec[i].Flag)
          THEN \/ ~Equal(r.Rec[i].Obs, cp.Rec[i].Obs)
               \/ ~Equal(r.Rec[i].Fill, cp.Rec[i].Fill)
          ELSE r.Rec[i].Flag # cp.Rec[i].Flag

\* ------------------------------------------------------------ output
\* The event and the set columns of the row of node i (Write).
EventName(e) ==
  CASE e = Vic -> "v"
    [] e \in {SympU, SympL, SympR} -> "s"
    [] e \in {PointL, PointR} -> "p"
    [] e \in {FoundL, FoundR} -> "f"
    [] OTHER -> "*"

\* The daughter that optimize hands to point or to founder at node n: the
\* point or the founder of the event; the range of the other daughter is
\* copied to n.
pointOf(r, n) ==
  CASE r.Rec[n].Flag \in {PointL, FoundL} -> r.Rec[n].SetL
    [] r.Rec[n].Flag \in {PointR, FoundR} -> r.Rec[n].SetR
    [] OTHER -> Nil

SetName(r, i) ==
  LET e == r.Rec[i].Flag
  IN  CASE e \in {SympL, PointR, FoundR} -> IDOf(Trees[r.Tree], r.Rec[i].SetL)
        [] e \in {SympR, PointL, FoundL} -> IDOf(Trees[r.Tree], r.Rec[i].SetR)
        [] OTHER -> "*"

\* The rows of Write for the nodes from i on.
RECURSIVE writeFrom(_, _)
writeFrom(r, i) ==
  IF i >= NumNodes(Trees[r.Tree]) THEN <<>>
  ELSE IF First(Trees[r.Tree], i) = Nil THEN writeFrom(r, i + 1)
  ELSE <<[Tree |-> Trees[r.Tree].ID, ID |-> r.ID,
          Node |-> IDOf(Trees[r.Tree], i),
          Event |-> EventName(r.Rec[i].Flag), Set |-> SetName(r, i)]>>
       \o writeFrom(r, i + 1)

\* The header row of Write.
Header ==
  [Tree |-> "Tree", ID |-> "ID", Node |-> "Node", Event |-> "Event",
   Set |-> "Set"]

\* Recons.Write: the rows written.
Write(r, header) ==
  (IF header THEN <<Header>> ELSE <<>>) \o writeFrom(r, 0)

\* ------------------------------------------------------------ read
\* strings.ToLower on the strings of the model.
ToLower(s) ==
  CASE s = "Tree" -> "tree"
    [] s = "ID" -> "id"
    [] s = "Node" -> "node"
    [] s = "Event" -> "event"
    [] s = "Set" -> "set"
    [] s = "T1" -> "t1"
    [] OTHER -> s

\* The columns of a row, in the order Write writes them.
Cols == <<"Tree", "ID", "Node", "Event", "Set">>

\* The field of a row at column c.
Field(row, c) == row[Cols[c]]

\* Read, the loop over the header: the last column with one of the names,
\* -1 without one.
column(h, names) ==
  IF \E c \in DOMAIN Cols : ToLower(Field(h, c)) \in names
  THEN CHOOSE c \in DOMAIN Cols :
         /\ ToLower(Field(h, c)) \in names
         /\ \A d \in DOMAIN Cols : ToLower(Field(h, d)) \in names => d <= c
  ELSE -1

readHeader(h) ==
  [treeF  |-> column(h, {"tree"}),
   ID     |-> column(h, {"id"}),
   node   |-> column(h, {"node", "node id"}),
   eventF |-> column(h, {"event", "ev"}),
   set    |-> column(h, {"set"})]

\* Read, the search of the tree of a row: the first tree of the list whose
\* ID is the name but for the case, and the tree t kept from the rows
\* before when there is none.
findTree(tl, name, t) ==
  IF \E k \in DOMAIN tl : ToLower(Trees[tl[k]].ID) = ToLower(name)
  THEN tl[MinOf({k \in DOMAIN tl : ToLower(Trees[tl[k]].ID) = ToLower(name)})]
  ELSE t

\* Read, the search of the node of a row: -1 when the tree has no such node.
findNode(t, id) ==
  IF \E j \in Nodes(Trees[t]) : IDOf(Trees[t], j) = id
  THEN MinOf({j \in Nodes(Trees[t]) : IDOf(Trees[t], j) = id})
  ELSE -1

\* Read, the switch on the event of a row for node n of the reconstruction
\* nr: the event to set, a row that is skipped, or an error.
readEvent(nr, n, ev, set) ==
  CASE ToLower(ev) = "v" -> [kind |-> "flag", event |-> Vic]
    [] ToLower(ev) = "s" ->
         IF set = "*" THEN [kind |-> "flag", event |-> SympU]
         ELSE IF IDOf(Trees[nr.Tree], nr.Rec[n].SetL) = set
         THEN [kind |-> "flag", event |-> SympL]
         ELSE IF IDOf(Trees[nr.Tree], nr.Rec[n].SetR) = set
         THEN [kind |-> "flag", event |-> SympR]
         ELSE [kind |-> "skip", event |-> Undef]
    [] ToLower(ev) = "p" ->
         IF IDOf(Trees[nr.Tree], nr.Rec[n].SetL) = set
         THEN [kind |-> "flag", event |-> PointR]
         ELSE IF IDOf(Trees[nr.Tree], nr.Rec[n].SetR) = set
         THEN [kind |-> "flag", event |-> PointL]
         ELSE [kind |-> "error", event |-> Undef]
    [] ToLower(ev) = "f" ->
         IF IDOf(Trees[nr.Tree], nr.Rec[n].SetL) = set
         THEN [kind |-> "flag", event |-> FoundR]
         ELSE IF IDOf(Trees[nr.Tree], nr.Rec[n].SetR) = set
         THEN [kind |-> "flag", event |-> FoundL]
         ELSE [kind |-> "error", event |-> Undef]
    [] OTHER -> [kind |-> "error", event |-> Undef]

\* The locals of Read before the first row: nr is the last of recs.
readStart == [kind |-> "ok", recs |-> <<>>, prev |-> "", id |-> "", t |-> Nil]

\* Read, the head of the body of its loop: a row of another tree or of
\* another reconstruction starts a reconstruction on the tree it finds.
\* The row is skipped (kind "skip") when no tree was found so far.
readOpen(st, row, c, ras, tl, size, sympSize, useLen) ==
  IF st.prev = Field(row, c.treeF) /\ st.id = Field(row, c.ID) THEN st
  ELSE IF findTree(tl, Field(row, c.treeF), st.t) = Nil
  THEN [st EXCEPT !.kind = "skip"]
  ELSE [kind |-> "ok",
        recs |-> Append(st.recs,
                   [OR(ras, findTree(tl, Field(row, c.treeF), st.t),
                       size, sympSize, useLen)
                      EXCEPT !.ID = Field(row, c.ID)]),
        prev |-> Field(row, c.treeF),
        id   |-> Field(row, c.ID),
        t    |-> findTree(tl, Field(row, c.treeF), st.t)]

\* Read, the rest of the body: the node of the row gets its event, and the
\* down-pass runs from it.  A node that the tree has not is index -1 of
\* nr.Rec, and the program panics.
readNode(st, row, c, n) ==
  IF st.kind = "skip" THEN [st EXCEPT !.kind = "ok"]
  ELSE IF n = -1 THEN [st EXCEPT !.kind = "panic"]
  ELSE IF st.recs[Len(st.recs)].Rec[n].SetL = -1 \/ Field(row, c.eventF) = "*"
  THEN st
  ELSE IF readEvent(st.recs[Len(st.recs)], n, Field(row, c.eventF),
                    Field(row, c.set)).kind = "skip"
  THEN st
  ELSE IF readEvent(st.recs[Len(st.recs)], n, Field(row, c.eventF),
                    Field(row, c.set)).kind = "error"
  THEN [st EXCEPT !.kind = "error"]
  ELSE [st EXCEPT !.recs[Len(st.recs)] =
          SetFlag(@, n, readEvent(@, n, Field(row, c.eventF),
                                  Field(row, c.set)).event)]

\* Read, the body of its loop for a row.
readRow(st, row, c, ras, tl, size, sympSize, useLen) ==
  IF \/ Field(row, c.treeF) = ""
     \/ Field(row, c.node) = ""
     \/ Field(row, c.ID) = ""
  THEN st
  ELSE readNode(readOpen(st, row, c, ras, tl, size, sympSize, useLen), row, c,
                IF readOpen(st, row, c, ras, tl, size, sympSize, useLen).kind
                     = "skip"
                THEN -1
                ELSE findNode(readOpen(st, row, c, ras, tl, size, sympSize,
                                       useLen).t, Field(row, c.node)))

\* Read, its loop from row k on.
RECURSIVE readFrom(_, _, _, _, _, _, _, _, _)
readFrom(st, rows, k, c, ras, tl, size, sympSize, useLen) ==
  IF st.kind # "ok" \/ k > Len(rows) THEN st
  ELSE readFrom(readRow(st, rows[k], c, ras, tl, size, sympSize, useLen),
                rows, k + 1, c, ras, tl, size, sympSize, useLen)

\* events.Read: the reconstructions read (kind "ok"), an error, or a panic.
Read(rows, ras, tl, size, sympSize, useLen) ==
  IF rows = <<>> THEN [kind |-> "error", recs |-> <<>>]
  ELSE IF \E f \in DOMAIN readHeader(rows[1]) : readHeader(rows[1])[f] < 0
  THEN [kind |-> "error", recs |-> <<>>]
  ELSE [kind |-> readFrom(readStart, rows, 2, readHeader(rows[1]), ras, tl,
                          size, sympSize, useLen).kind,
        recs |-> IF readFrom(readStart, rows, 2, readHeader(rows[1]), ras, tl,
                             size, sympSize, useLen).kind = "ok"
                 THEN readFrom(readStart, rows, 2, readHeader(rows[1]), ras,
                               tl, size, sympSize, useLen).recs
                 ELSE <<>>]

\* The number of internal nodes of r with an event of the set E.
countOf(r, E) ==
  Cardinality({i \in DOMAIN r.Rec :
                 First(Trees[r.Tree], i) # Nil /\ r.Rec[i].Flag \in E})

\* Recons.Evaluate
Evaluate(r) ==
  [Vics  |-> countOf(r, {Vic}),
   Symp  |-> countOf(r, {SympU, SympL, SympR}),
   Point |-> countOf(r, {PointL, PointR}),
   Found |-> countOf(r, {FoundL, FoundR})]

\* ------------------------------------------------------------ exclusion
\* events.AddVic, AddSymp, AddPoint and AddFounder: the events of a family
\* appended to the event slice.
AddVic(evs) == Append(evs, Vic)

AddSymp(evs) == evs \o <<SympU, SympL, SympR>>

AddPoint(evs) == evs \o <<PointL, PointR>>

AddFounder(evs) == evs \o <<FoundL, FoundR>>

\* makeEvents: the event slice of a run whose flags exclude the families
\* of x (--novic, --nosymp, --nopoint, --nofound).
makeEvents(x) ==
  (IF x.vic THEN <<>> ELSE AddVic(<<>>))
    \o (IF x.symp THEN <<>> ELSE AddSymp(<<>>))
    \o (IF x.point THEN <<>> ELSE AddPoint(<<>>))
    \o (IF x.found THEN <<>> ELSE AddFounder(<<>>))

\* The initial reconstruction left as OR made it.
remapNone(or, x, i) == or

\* The loops for the prohibited events without the test of the event that
\* OR assigned: every node gets the replacement.
RECURSIVE remapEvery(_, _, _)
remapEvery(or, x, i) ==
  IF i >= NumNodes(Trees[or.Tree]) THEN or
  ELSE remapEvery(
         IF x.vic /\ x.symp
         THEN SetFlag(or, i, IF x.found THEN PointR ELSE FoundR)
         ELSE IF x.vic THEN SetFlag(or, i, SympU)
         ELSE IF x.symp THEN SetFlag(or, i, Vic)
         ELSE or,
         x, i + 1)

\* evFlipRun, the loops that modify or for the prohibited events, from
\* node i on: an excluded event that OR assigned is replaced and the
\* down-pass is run.
RECURSIVE remapFrom(_, _, _)
remapFrom(or, x, i) ==
  IF i >= NumNodes(Trees[or.Tree]) THEN or
  ELSE remapFrom(
         IF x.vic /\ x.symp
         THEN IF or.Rec[i].Flag \in {Vic, SympU}
              THEN SetFlag(or, i, IF x.found THEN PointR ELSE FoundR)
              ELSE or
         ELSE IF x.vic
         THEN IF or.Rec[i].Flag = Vic THEN SetFlag(or, i, SympU) ELSE or
         ELSE IF x.symp
         THEN IF or.Rec[i].Flag = SympU THEN SetFlag(or, i, Vic) ELSE or
         ELSE or,
         x, i + 1)

\* ------------------------------------------------------------ best sets
\* The test of doFlip and of getBestFlip: r1 is different from every
\* reconstruction of best.
AllDiff(r1, best) == \A k \in 1 .. Len(best) : IsDiff(r1, best[k])

\* The label of the copy kept by worker px for replicate i.
Label(px, i) == ToString(px) \o "." \o ToString(i)

\* keepBest with a cheaper reconstruction added to the best set, the set
\* not started anew.
keepBestAppend(best, r, px, i) ==
  IF Cost(r) <= Cost(best[1]) /\ AllDiff(r, best)
  THEN Append(best, [MakeCopy(r) EXCEPT !.ID = Label(px, i)])
  ELSE best

\* keepBest without the test of IsDiff.
keepBestNoDiff(best, r, px, i) ==
  IF Cost(r) < Cost(best[1])
  THEN <<[MakeCopy(r) EXCEPT !.ID = Label(px, i)]>>
  ELSE IF Cost(r) = Cost(best[1])
  THEN Append(best, [MakeCopy(r) EXCEPT !.ID = Label(px, i)])
  ELSE best

\* doFlip, after flipRecons left r in replicate i of worker px: the best
\* set of the worker.
keepBest(best, r, px, i) ==
  IF Cost(r) < Cost(best[1])
  THEN <<[MakeCopy(r) EXCEPT !.ID = Label(px, i)]>>
  ELSE IF Cost(r) = Cost(best[1]) /\ AllDiff(r, best)
  THEN Append(best, [MakeCopy(r) EXCEPT !.ID = Label(px, i)])
  ELSE best

\* The loop of getBestFlip over the reconstructions of b, from position k.
RECURSIVE appendDiff(_, _, _)
appendDiff(best, b, k) ==
  IF k > Len(b) THEN best
  ELSE appendDiff(IF AllDiff(b[k], best) THEN Append(best, b[k]) ELSE best,
                  b, k + 1)

\* mergeBest that keeps its set when a set of the same cost arrives.
mergeBestFirst(best, b) ==
  IF Cost(b[1]) < Cost(best[1]) THEN b ELSE best

\* getBestFlip, a turn of its loop: the best set after the set b arrived.
mergeBest(best, b) ==
  IF Cost(b[1]) < Cost(best[1]) THEN b
  ELSE IF Cost(b[1]) = Cost(best[1]) THEN appendDiff(best, b, 1)
  ELSE best

\* getBestFlip: the best set it sends, the sets of the workers received in
\* the order of the list sets, from position k on.
RECURSIVE mergeFrom(_, _, _)
mergeFrom(best, sets, k) ==
  IF k > Len(sets) THEN best
  ELSE mergeFrom(mergeBest(best, sets[k]), sets, k + 1)

getBestFlip(sets) == mergeFrom(sets[1], sets, 2)

\* The best sets a worker can hold after replicate i, when Sets are those
\* it can hold before it, and R the reconstructions a replicate can leave.
RECURSIVE workerBests(_, _, _, _)
workerBests(Sets, R, px, i) ==
  IF i >= NumReps THEN Sets
  ELSE workerBests({keepBest(b, x, px, i) : b \in Sets, x \in R}, R, px, i + 1)

\* A replicate of doFlip on a copy of or: the reconstructions that
\* Randomize and flipRecons can leave.
Replicate(or) ==
  flipLeaves(
    {[r |-> x, fl |-> flipCall(x, nodesFrom(x, 0))] :
       x \in {Randomize(MakeCopy(or), numRand, Events, draws, picks) :
                draws \in [Optimizable(or) -> Draws],
                picks \in [Optimizable(or) -> 0 .. (Len(Events) - 1)]}},
    Events)

\* The rows that the loop of evFlipRun over a best set writes, from
\* position k of recs on.
RECURSIVE writeAll(_, _, _)
writeAll(recs, k, head) ==
  IF k > Len(recs) THEN <<>>
  ELSE Write(recs[k], head) \o writeAll(recs, k + 1, FALSE)

\* ------------------------------------------------------------ inputs
\* The parameters of a run: -z, --sympSize, -b and the four event costs.
Configs ==
  { [size |-> 0, sympSize |-> 0, useLen |-> FALSE,
     vic |-> ToCost(1), symp |-> ToCost(1), point |-> ToCost(1), found |-> ToCost(1)],
    [size |-> 2, sympSize |-> 0, useLen |-> TRUE,
     vic |-> ToCost(1), symp |-> ToCost(2), point |-> ToCost(1), found |-> ToCost(1)],
    [size |-> 1, sympSize |-> 2, useLen |-> FALSE,
     vic |-> ToCost(2), symp |-> ToCost(1), point |-> ToCost(1), found |-> ToCost(2)] }

\* Fill radius of the raster (-f).
FillSet == {0, 1}

\* The names of the terminals of a tree.
TermsOf(t) == {t.Term[k] : k \in 1 .. Len(t.Term)} \ {""}

\* The number of (terminal, pixel) occurrences of a data set.
NumRecords(o) == Cardinality({<<x, b>> \in (DOMAIN o) \X Pixels : b \in o[x]})

\* The rasters on which tree tk is reconstructed: every terminal has any set
\* of pixels, the empty set for a terminal without records.
Rasters(tk) ==
  { [Obs |-> o, Fill |-> f] :
      o \in {x \in [TermsOf(Trees[tk]) -> SUBSET Pixels] :
                NumRecords(x) <= MaxRecords},
      f \in FillSet }

\* A raster of two overlapping ranges of two pixels, for which vicariance
\* and full sympatry cost the same; the other terminals have no records.
TieRasters(tk) ==
  { [Obs |-> [x \in TermsOf(Trees[tk]) |->
                IF x = "a" THEN {0, 1} ELSE IF x = "b" THEN {1, 2} ELSE {}],
     Fill |-> 0] }

\* The initial reconstruction of evFlipRun: OR, then the four event costs.
InitialRecons(ras, tk, cf) ==
  SetPointCost(
    SetFoundCost(
      SetSympCost(
        SetVicCost(OR(ras, tk, cf.size, cf.sympSize, cf.useLen), cf.vic),
        cf.symp),
      cf.found),
    cf.point)

\* ------------------------------------------------------------ state
VARIABLES
  ras,    \* the raster
  r,      \* the reconstruction at work
  fl,     \* the locals of the call of flipRecons on r
  entry,  \* the root cost of r at the last call of flipRecons
  ts,     \* the trees of a search, in the order they were supplied
  ors,    \* the initial reconstruction of every tree of the search
  repl,   \* the reconstructions a replicate can leave, for every tree
  wk,     \* the workers of every tree (doFlip)
  red,    \* the reducer of every tree (getBestFlip)
  outp,   \* the rows written to the output
  mainN,  \* the number of best sets the main loop has received
  heap,   \* the memory of the reconstructions
  gor,    \* the goroutines that work on the memory
  acc,    \* the reads and writes of the goroutines
  last,   \* the last operation on the memory and its receiver
  back,   \* what Read gave back from the rows written
  no,     \* the families of events the flags of the run exclude
  ds,     \* the data set given to Rasterize
  bits    \* the bitfields at work, field by field

engineVars == <<ras, r, fl, entry>>

searchVars == <<ts, ors, repl, wk, red, outp, mainN>>

heapVars == <<heap, gor, acc, last>>

restVars == <<heap, gor, acc, last, back, no, ds, bits>>

vars == <<ras, r, fl, entry, ts, ors, repl, wk, red, outp, mainN,
          heap, gor, acc, last, back, no, ds, bits>>

\* No memory at work, nothing read.
NoOp == [op |-> "none", obj |-> 0]

NoRead == [kind |-> "none", recs |-> <<>>]

\* No bitfield at work.
NoBits == <<>>

\* No data set at hand.
NoData == <<>>

\* No family of events is excluded.
NoExcl == [vic |-> FALSE, symp |-> FALSE, point |-> FALSE, found |-> FALSE]

NoHeap ==
  /\ heap = <<>>
  /\ gor = <<>>
  /\ acc = {}
  /\ last = NoOp
  /\ back = NoRead
  /\ no = NoExcl
  /\ ds = NoData
  /\ bits = NoBits

\* No search.
NoSearch ==
  /\ ts = <<>>
  /\ ors = <<>>
  /\ repl = <<>>
  /\ wk = <<>>
  /\ red = <<>>
  /\ outp = <<>>
  /\ mainN = 0

\* No call of flipRecons.
NoFlip == [pc |-> "idle", best |-> 0, nodes |-> <<>>, idx |-> 0]

\* ------------------------------------------------------------ engine
\* The trees that are reconstructed.
EngineTrees == 1 .. 5

Init ==
  \E tk \in EngineTrees, cf \in Configs :
    /\ ras \in Rasters(tk) \cup TieRasters(tk)
    /\ r = InitialRecons(ras, tk, cf)
    /\ fl = NoFlip
    /\ entry = 0
    /\ NoSearch
    /\ NoHeap

\* A caller sets the event of optimizable node n and runs the down-pass.
FlagStep ==
  \E n \in Optimizable(r), e \in 1 .. 8 :
    /\ r' = SetFlag(r, n, Events[e])
    /\ UNCHANGED <<ras, fl, entry>>
    /\ UNCHANGED <<searchVars, restVars>>

\* A caller runs the down-pass from any node.
DownPassStep ==
  \E n \in DOMAIN r.Rec :
    /\ r' = DownPass(r, n)
    /\ UNCHANGED <<ras, fl, entry>>
    /\ UNCHANGED <<searchVars, restVars>>

Next == FlagStep \/ DownPassStep

Spec == Init /\ [][Next]_vars

\* ------------------------------------------------------------ cost updates
\* The trees and the rasters on which the cost scalars are changed.
CostTrees == 1 .. 2

CostRasters ==
  { [Obs |-> [a |-> {0, 1}, b |-> {1}, c |-> {0}], Fill |-> f] : f \in FillSet }

\* The values given to the SetXCost methods.
ScalarValues == {ToCost(1), ToCost(2)}

InitCost ==
  \E tk \in CostTrees, cf \in Configs :
    /\ ras \in CostRasters
    /\ r = InitialRecons(ras, tk, cf)
    /\ fl = NoFlip
    /\ entry = 0
    /\ NoSearch
    /\ NoHeap

\* r.SetVicCost(c)
SetVicCostStep ==
  /\ \E c \in ScalarValues : r' = SetVicCost(r, c)
  /\ UNCHANGED <<ras, fl, entry, searchVars, restVars>>

\* r.SetSympCost(c)
SetSympCostStep ==
  /\ \E c \in ScalarValues : r' = SetSympCost(r, c)
  /\ UNCHANGED <<ras, fl, entry, searchVars, restVars>>

\* r.SetPointCost(c)
SetPointCostStep ==
  /\ \E c \in ScalarValues : r' = SetPointCost(r, c)
  /\ UNCHANGED <<ras, fl, entry, searchVars, restVars>>

\* r.SetFoundCost(c)
SetFoundCostStep ==
  /\ \E c \in ScalarValues : r' = SetFoundCost(r, c)
  /\ UNCHANGED <<ras, fl, entry, searchVars, restVars>>

NextCost ==
  \/ FlagStep
  \/ SetVicCostStep
  \/ SetSympCostStep
  \/ SetPointCostStep
  \/ SetFoundCostStep

SpecCost == InitCost /\ [][NextCost]_vars

\* ------------------------------------------------------------ flip search
\* The trees of the flip search.
FlipTrees == 1 .. 2

\* The pixels with records in the flip search.
FlipPixels == 0 .. 1

\* The rasters of the flip search: every terminal has records, no fill.
FlipRasters(tk) ==
  {x \in Rasters(tk) :
     /\ x.Fill = 0
     /\ \A name \in DOMAIN x.Obs :
          x.Obs[name] # {} /\ x.Obs[name] \subseteq FlipPixels}

InitFlip ==
  \E tk \in FlipTrees, cf \in Configs :
    /\ ras \in FlipRasters(tk)
    /\ r = InitialRecons(ras, tk, cf)
    /\ fl = NoFlip
    /\ entry = 0
    /\ NoSearch
    /\ NoHeap

\* Between two calls of flipRecons the reconstruction is randomized.
RandomizeStep ==
  /\ fl.pc \in {"idle", "done"}
  /\ \E draws \in [Optimizable(r) -> Draws],
        picks \in [Optimizable(r) -> 0 .. (Len(Events) - 1)] :
       r' = Randomize(r, numRand, Events, draws, picks)
  /\ fl' = NoFlip
  /\ entry' = 0
  /\ UNCHANGED <<ras, searchVars, restVars>>

\* flipRecons is called with the optimizable nodes and the events, as
\* doFlip does.
FlipCall ==
  /\ fl.pc \in {"idle", "done"}
  /\ fl' = flipCall(r, nodesFrom(r, 0))
  /\ entry' = Cost(r)
  /\ UNCHANGED <<ras, r, searchVars, restVars>>

\* A pass over the nodes starts: the nodes are shuffled.
FlipShuffle ==
  /\ fl.pc = "shuffle"
  /\ \E x \in flipNext(r, fl, Events) : r' = x.r /\ fl' = x.fl
  /\ UNCHANGED <<ras, entry, searchVars, restVars>>

\* The next node of the pass is examined.
FlipNode ==
  /\ fl.pc = "nodes"
  /\ fl.idx <= Len(fl.nodes)
  /\ \E x \in flipNext(r, fl, Events) : r' = x.r /\ fl' = x.fl
  /\ UNCHANGED <<ras, entry, searchVars, restVars>>

\* A pass that kept no flip ends the call.
FlipReturn ==
  /\ fl.pc = "nodes"
  /\ fl.idx > Len(fl.nodes)
  /\ \E x \in flipNext(r, fl, Events) : r' = x.r /\ fl' = x.fl
  /\ UNCHANGED <<ras, entry, searchVars, restVars>>

NextFlip == RandomizeStep \/ FlipCall \/ FlipShuffle \/ FlipNode \/ FlipReturn

SpecFlip == InitFlip /\ [][NextFlip]_vars

\* ------------------------------------------------------------ search
\* The data and the costs of the searches: a raster and the event flags.
SearchInputs ==
  { [ras |-> [Obs |-> [a |-> {0}, b |-> {1}, c |-> {0}], Fill |-> 0],
     cf  |-> [size |-> 1, sympSize |-> 2, useLen |-> FALSE,
              vic |-> ToCost(2), symp |-> ToCost(1), point |-> ToCost(1),
              found |-> ToCost(2)]],
    [ras |-> [Obs |-> [a |-> {0}, b |-> {0}, c |-> {1}], Fill |-> 0],
     cf  |-> [size |-> 0, sympSize |-> 0, useLen |-> FALSE,
              vic |-> ToCost(1), symp |-> ToCost(1), point |-> ToCost(1),
              found |-> ToCost(1)]] }

\* The trees that are searched.
SearchTrees == 1 .. 2

\* The workers of a search: tree k of the list, worker px.
Workers == (DOMAIN ts) \X (0 .. (NumProc - 1))

\* The search of the trees of list tl, as evFlipRun sets it up: an initial
\* reconstruction, the workers and a reducer for every tree.
SearchInit(tl, X) ==
  \E x \in X :
    /\ ras = x.ras
    /\ ts = tl
    /\ ors = [k \in DOMAIN tl |-> InitialRecons(x.ras, tl[k], x.cf)]
    /\ repl = [k \in DOMAIN tl |->
                 Replicate(InitialRecons(x.ras, tl[k], x.cf))]
    /\ wk = [w \in (DOMAIN tl) \X (0 .. (NumProc - 1)) |->
               [pc |-> "start", i |-> 0, best |-> <<>>, seen |-> {}]]
    /\ red = [k \in DOMAIN tl |->
                [pc |-> "recv", p |-> 0, best |-> <<>>, got |-> <<>>]]
    /\ outp = <<>>
    /\ mainN = 0
    /\ r = InitialRecons(x.ras, tl[1], x.cf)
    /\ fl = NoFlip
    /\ entry = 0
    /\ NoHeap

InitSearch == \E tk \in SearchTrees : SearchInit(<<tk>>, SearchInputs)

\* A worker starts: its best set is a copy of the initial reconstruction.
\* seen keeps the root costs of the initial reconstruction and of the
\* reconstructions the replicates left.
WorkerStart(w) ==
  /\ wk[w].pc = "start"
  /\ wk' = [wk EXCEPT ![w] = [pc |-> "loop", i |-> 0,
                              best |-> <<MakeCopy(ors[w[1]])>>,
                              seen |-> {Cost(ors[w[1]])}]]
  /\ UNCHANGED <<engineVars, restVars, ts, ors, repl, red, outp, mainN>>

\* A replicate of a worker: the reconstruction is copied from the initial
\* one, randomized and flipped, and kept in the best set or not.  The
\* reconstruction of the worker is written anew by every replicate, and
\* is not kept in wk; repl holds Replicate of the initial reconstruction.
ReplicateStep(w) ==
  /\ wk[w].pc = "loop"
  /\ \E x \in repl[w[1]] :
       wk' = [wk EXCEPT ![w] =
                [pc   |-> IF wk[w].i + 1 < NumReps THEN "loop" ELSE "send",
                 i    |-> wk[w].i + 1,
                 best |-> keepBest(wk[w].best, x, w[2], wk[w].i),
                 seen |-> wk[w].seen \cup {Cost(x)}]]
  /\ UNCHANGED <<engineVars, restVars, ts, ors, repl, red, outp, mainN>>

\* A reducer that waits for one more best set than its tree has workers.
receivedOneMore(rd, b) ==
  [pc   |-> IF rd.p < NumProc THEN "recv" ELSE "send",
   p    |-> rd.p + 1,
   best |-> IF rd.p = 0 THEN b ELSE mergeBest(rd.best, b),
   got  |-> Append(rd.got, b)]

\* The reducer rd after the best set b of a worker arrived (<-in of
\* getBestFlip).  got keeps the sets in the order of arrival.
received(rd, b) ==
  [pc   |-> IF rd.p + 1 < NumProc THEN "recv" ELSE "send",
   p    |-> rd.p + 1,
   best |-> IF rd.p = 0 THEN b ELSE mergeBest(rd.best, b),
   got  |-> Append(rd.got, b)]

\* A worker hands its best set to the reducer of its tree (out <- best).
ReducerRecv(w) ==
  /\ wk[w].pc = "send"
  /\ red[w[1]].pc = "recv"
  /\ wk' = [wk EXCEPT ![w].pc = "done"]
  /\ red' = [red EXCEPT ![w[1]] = received(red[w[1]], wk[w].best)]
  /\ UNCHANGED <<engineVars, restVars, ts, ors, repl, outp, mainN>>

\* The reducer of tree k hands its best set to the main loop (out <- best
\* and <-best of evFlipRun), which writes it.
Emit(k) ==
  /\ red[k].pc = "send"
  /\ mainN < Len(ts)
  /\ red' = [red EXCEPT ![k].pc = "done"]
  /\ outp' = outp \o writeAll(red[k].best, 1, mainN = 0)
  /\ mainN' = mainN + 1
  /\ UNCHANGED <<engineVars, restVars, ts, ors, repl, wk>>

NextSearch ==
  \/ \E w \in Workers : WorkerStart(w)
  \/ \E w \in Workers : ReplicateStep(w)
  \/ \E w \in Workers : ReducerRecv(w)
  \/ \E k \in DOMAIN ts : Emit(k)

SpecSearch == InitSearch /\ [][NextSearch]_vars

\* ------------------------------------------------------------ run
\* The list of trees of a run of evFlipRun.
RunLists == {<<1, 2>>}

\* The input of the runs.
RunInputs == {x \in SearchInputs : x.cf.size = 1}

InitRun == \E tl \in RunLists : SearchInit(tl, RunInputs)

\* A worker runs from its start to its send, all its replicates made: it
\* holds its best set and waits at out <- best until the reducer of its
\* tree receives (ReducerRecv).
WorkerRun(w) ==
  /\ wk[w].pc = "start"
  /\ \E b \in workerBests({<<MakeCopy(ors[w[1]])>>}, repl[w[1]], w[2], 0) :
       wk' = [wk EXCEPT ![w] = [pc |-> "send", i |-> NumReps,
                                best |-> b, seen |-> {}]]
  /\ UNCHANGED <<engineVars, restVars, ts, ors, repl, red, outp, mainN>>

NextRun ==
  \/ \E w \in Workers : WorkerRun(w)
  \/ \E w \in Workers : ReducerRecv(w)
  \/ \E k \in DOMAIN ts : Emit(k)

SpecRun == InitRun /\ [][NextRun]_vars

\* The run when the goroutines are scheduled: a send and a receive that
\* can meet on a channel do meet.
SpecRunFair == InitRun /\ [][NextRun]_vars /\ WF_vars(NextRun)

\* ------------------------------------------------------------ termination
\* The locals that a step of a call of flipRecons can leave: the nodes
\* shuffled and the pass started, the next node of the pass, a flip kept
\* at a lower cost and another pass asked for, or the return.
LocalsAfter(f) ==
  IF f.pc = "shuffle"
  THEN {[f EXCEPT !.pc = "nodes", !.nodes = ns, !.idx = 1] :
          ns \in Shuffled(f.nodes)}
  ELSE IF f.pc = "nodes" /\ f.idx <= Len(f.nodes)
  THEN {[f EXCEPT !.idx = f.idx + 1]}
         \cup {[f EXCEPT !.pc = "shuffle", !.best = b] : b \in 0 .. (f.best - 1)}
  ELSE {[f EXCEPT !.pc = "done", !.nodes = <<>>, !.idx = 0]}

\* A step of the goroutine that runs a call of flipRecons.
CallStep ==
  /\ fl.pc \in {"shuffle", "nodes"}
  /\ fl' \in LocalsAfter(fl)

\* The flip search when the goroutine that runs flipRecons is not stopped
\* for ever: a call that is running takes its next step (all the steps of
\* a running call are steps of FlipShuffle, FlipNode and FlipReturn).
SpecFlipFair == InitFlip /\ [][NextFlip]_vars /\ WF_fl(CallStep)

\* ------------------------------------------------------------ excluded events
\* The flags of a run: every combination that leaves a family permitted
\* (evFlipRun exits when the four families are excluded).
Exclusions ==
  {x \in [vic : BOOLEAN, symp : BOOLEAN, point : BOOLEAN, found : BOOLEAN] :
     ~(x.vic /\ x.symp /\ x.point /\ x.found)}

\* The trees of the runs with excluded events.
ExclTrees == 1 .. 2

\* The worker of the runs with excluded events.
ExclWorker == <<1, 0>>

\* evFlipRun with excluded events, up to the spawn of a worker: OR, the
\* loops for the prohibited events, and the worker with its copies of or.
InitExcl ==
  \E tk \in ExclTrees, x \in RunInputs, e \in Exclusions :
    \E or \in {remapFrom(OR(x.ras, tk, x.cf.size, x.cf.sympSize, x.cf.useLen),
                         e, 0)} :
      /\ no = e
      /\ ras = x.ras
      /\ ts = <<tk>>
      /\ ors = <<or>>
      /\ r = MakeCopy(or)
      /\ wk = [w \in {ExclWorker} |->
                 [pc |-> "loop", i |-> 0, best |-> <<MakeCopy(or)>>,
                  seen |-> {Cost(or)}]]
      /\ fl = NoFlip
      /\ entry = 0
      /\ repl = <<>>
      /\ red = <<>>
      /\ outp = <<>>
      /\ mainN = 0
      /\ heap = <<>>
      /\ gor = <<>>
      /\ acc = {}
      /\ last = NoOp
      /\ back = NoRead
      /\ ds = NoData
      /\ bits = NoBits

\* A replicate starts: r.Copy(or) after the first one, then
\* r.Randomize(numRand, evs).
ExclRandomize ==
  /\ wk[ExclWorker].pc = "loop"
  /\ fl.pc = "idle"
  /\ \E r0 \in {IF wk[ExclWorker].i > 0 THEN Copy(r, ors[1]) ELSE r} :
       \E draws \in [Optimizable(r0) -> Draws],
          picks \in [Optimizable(r0) -> 0 .. (Len(makeEvents(no)) - 1)] :
         r' = Randomize(r0, numRand, makeEvents(no), draws, picks)
  /\ fl' = [NoFlip EXCEPT !.pc = "ready"]
  /\ UNCHANGED <<ras, entry, searchVars, restVars>>

\* flipRecons(r, nodes, evs) is called.
ExclFlipCall ==
  /\ fl.pc = "ready"
  /\ fl' = flipCall(r, nodesFrom(r, 0))
  /\ entry' = Cost(r)
  /\ UNCHANGED <<ras, r, searchVars, restVars>>

\* A step of flipRecons: the shuffle, a node of the pass, or the return.
ExclFlip ==
  /\ fl.pc \in {"shuffle", "nodes"}
  /\ \E x \in flipNext(r, fl, makeEvents(no)) : r' = x.r /\ fl' = x.fl
  /\ UNCHANGED <<ras, entry, searchVars, restVars>>

\* The replicate ends: the reconstruction is kept in the best set or not.
ExclKeep ==
  /\ wk[ExclWorker].pc = "loop"
  /\ fl.pc = "done"
  /\ wk' = [wk EXCEPT ![ExclWorker] =
              [pc   |-> IF @.i + 1 < NumReps THEN "loop" ELSE "send",
               i    |-> @.i + 1,
               best |-> keepBest(@.best, r, ExclWorker[2], @.i),
               seen |-> @.seen \cup {Cost(r)}]]
  /\ fl' = NoFlip
  /\ UNCHANGED <<ras, r, entry, ts, ors, repl, red, outp, mainN, restVars>>

\* The best set of the worker is handed on and written.
ExclEmit ==
  /\ wk[ExclWorker].pc = "send"
  /\ wk' = [wk EXCEPT ![ExclWorker].pc = "done"]
  /\ outp' = writeAll(wk[ExclWorker].best, 1, TRUE)
  /\ UNCHANGED <<engineVars, ts, ors, repl, red, mainN, restVars>>

NextExcl ==
  \/ ExclRandomize
  \/ ExclFlipCall
  \/ ExclFlip
  \/ ExclKeep
  \/ ExclEmit

SpecExcl == InitExcl /\ [][NextExcl]_vars

\* ------------------------------------------------------------ memory
\* The memory of the reconstructions: obj holds the Recons, arr the slices
\* of nodes (Recons.Rec), bit the bitfields and lst the slices of integers
\* (the node lists and the event lists).  A pointer is a place of its
\* tuple: Rec of a Recons is a place of arr, Obs and Fill of a node are
\* places of bit.  Tree and Raster are shared and never written.
\* shuffle rewrites a slice of integers in place, in an order that the
\* random source decides; every loop over such a slice comes after a
\* shuffle of it, and Randomize takes a place of it at random: lst keeps of a slice the integers it holds with the
\* number of times it holds each, which shuffle leaves as they are, and
\* not their order.
EmptyHeap == [obj |-> <<>>, arr |-> <<>>, bit |-> <<>>, lst |-> <<>>]

\* The nodes of the reconstruction at place id.
nodesAt(h, id) == h.arr[h.obj[id].Rec]

\* The reconstruction at place id, its pointers followed.
Deref(h, id) ==
  [h.obj[id] EXCEPT !.Rec =
     [i \in DOMAIN nodesAt(h, id) |->
        [nodesAt(h, id)[i] EXCEPT !.Obs = h.bit[nodesAt(h, id)[i].Obs],
                                  !.Fill = h.bit[nodesAt(h, id)[i].Fill]]]]

\* The bitfield at place k after the fields of v were written through the
\* pointers of the reconstruction at place id.
storedBit(h, id, v, k) ==
  IF \E i \in DOMAIN v.Rec : nodesAt(h, id)[i].Obs = k
  THEN v.Rec[CHOOSE i \in DOMAIN v.Rec : nodesAt(h, id)[i].Obs = k].Obs
  ELSE IF \E i \in DOMAIN v.Rec : nodesAt(h, id)[i].Fill = k
  THEN v.Rec[CHOOSE i \in DOMAIN v.Rec : nodesAt(h, id)[i].Fill = k].Fill
  ELSE h.bit[k]

\* The memory after a method left the fields of v in its receiver, the
\* reconstruction at place id: the scalars, the fields of the nodes and
\* the bitfields are written in place.
Store(h, id, v) ==
  [obj |-> [h.obj EXCEPT ![id] = [v EXCEPT !.Rec = h.obj[id].Rec]],
   arr |-> [h.arr EXCEPT ![h.obj[id].Rec] =
              [i \in DOMAIN v.Rec |->
                 [v.Rec[i] EXCEPT !.Obs = nodesAt(h, id)[i].Obs,
                                  !.Fill = nodesAt(h, id)[i].Fill]]],
   bit |-> [k \in DOMAIN h.bit |-> storedBit(h, id, v, k)],
   lst |-> h.lst]

\* A new Recons with the fields of v: a new slice of nodes, and two new
\* bitfields for every node (the make calls of OR and of MakeCopy).
NewRecons(h, v) ==
  [obj |-> Append(h.obj, [v EXCEPT !.Rec = Len(h.arr) + 1]),
   arr |-> Append(h.arr,
             [i \in DOMAIN v.Rec |->
                [v.Rec[i] EXCEPT !.Obs = Len(h.bit) + (2 * i) + 1,
                                 !.Fill = Len(h.bit) + (2 * i) + 2]]),
   bit |-> h.bit \o
             [k \in 1 .. (2 * Cardinality(DOMAIN v.Rec)) |->
                IF k % 2 = 1 THEN v.Rec[(k - 1) \div 2].Obs
                ELSE v.Rec[(k - 2) \div 2].Fill],
   lst |-> h.lst]

\* A copy that takes the bitfields of the nodes of src, not copies of them.
MakeCopyShared(h, src) ==
  [obj |-> Append(h.obj, [h.obj[src] EXCEPT !.Rec = Len(h.arr) + 1]),
   arr |-> Append(h.arr, nodesAt(h, src)),
   bit |-> h.bit,
   lst |-> h.lst]

\* Recons.MakeCopy in the memory: the copy is the last Recons of obj.
MakeCopyAt(h, src) == NewRecons(h, MakeCopy(Deref(h, src)))

\* Recons.Copy in the memory: the content of cp is written into id.
CopyAt(h, id, cp) == Store(h, id, Copy(Deref(h, id), Deref(h, cp)))

\* A new slice of integers with the content v: its integers, each with the
\* number of its places.
NewList(h, v) ==
  [h EXCEPT !.lst =
     Append(h.lst,
            {<<v[i], Cardinality({j \in DOMAIN v : v[j] = v[i]})>> :
               i \in DOMAIN v})]

\* cp.ID = fmt.Sprintf("%d.%d", px, i)
SetIDAt(h, id, s) == [h EXCEPT !.obj[id].ID = s]

\* The places of the memory that belong to the reconstruction at place id.
Cells(h, id) ==
  {<<"obj", id>>, <<"arr", h.obj[id].Rec>>}
    \cup {<<"bit", nodesAt(h, id)[i].Obs>> : i \in DOMAIN nodesAt(h, id)}
    \cup {<<"bit", nodesAt(h, id)[i].Fill>> : i \in DOMAIN nodesAt(h, id)}

\* ------------------------------------------------------------ copies in memory
\* The number of reconstructions in the memory.
MaxObjs == 2

\* The cost given to the SetXCost methods.
CostValues == {ToCost(2)}

\* The events given to the copies, and the event slice given to Randomize.
CopyEvents == <<Vic, SympL, FoundR>>

\* The raster and the parameters of the reconstruction that is copied.
CopyInput ==
  [ras |-> [Obs |-> [a |-> {0}, b |-> {1}], Fill |-> 0],
   cf  |-> [size |-> 1, sympSize |-> 2, useLen |-> FALSE,
            vic |-> ToCost(1), symp |-> ToCost(1), point |-> ToCost(1),
            found |-> ToCost(1)]]

InitCopy ==
  /\ ras = CopyInput.ras
  /\ r = InitialRecons(CopyInput.ras, 1, CopyInput.cf)
  /\ fl = NoFlip
  /\ entry = 0
  /\ NoSearch
  /\ heap = NewRecons(EmptyHeap, InitialRecons(CopyInput.ras, 1, CopyInput.cf))
  /\ gor = <<>>
  /\ acc = {}
  /\ last = NoOp
  /\ back = NoRead
  /\ no = NoExcl
  /\ ds = NoData
  /\ bits = NoBits

\* c = r.MakeCopy()
MakeCopyStep ==
  /\ Len(heap.obj) < MaxObjs
  /\ \E src \in DOMAIN heap.obj :
       /\ heap' = MakeCopyAt(heap, src)
       /\ last' = [op |-> "MakeCopy", obj |-> Len(heap.obj) + 1]
  /\ UNCHANGED <<engineVars, searchVars, gor, acc, back, no, ds, bits>>

\* c.Copy(r)
CopyStep ==
  /\ \E c \in DOMAIN heap.obj, src \in DOMAIN heap.obj :
       /\ c # src
       /\ heap' = CopyAt(heap, c, src)
       /\ last' = [op |-> "Copy", obj |-> c]
  /\ UNCHANGED <<engineVars, searchVars, gor, acc, back, no, ds, bits>>

\* c.Rec[n].Flag = e and c.DownPass(n)
FlagAtStep ==
  /\ \E c \in DOMAIN heap.obj :
       \E n \in Optimizable(Deref(heap, c)), e \in DOMAIN CopyEvents :
         /\ heap' = Store(heap, c, SetFlag(Deref(heap, c), n, CopyEvents[e]))
         /\ last' = [op |-> "Flag", obj |-> c]
  /\ UNCHANGED <<engineVars, searchVars, gor, acc, back, no, ds, bits>>

\* c.Randomize(numRand, evs)
RandomizeAtStep ==
  /\ \E c \in DOMAIN heap.obj :
       \E draws \in [Optimizable(Deref(heap, c)) -> Draws],
          picks \in [Optimizable(Deref(heap, c)) ->
                      0 .. (Len(CopyEvents) - 1)] :
         /\ heap' = Store(heap, c, Randomize(Deref(heap, c), numRand,
                                             CopyEvents, draws, picks))
         /\ last' = [op |-> "Randomize", obj |-> c]
  /\ UNCHANGED <<engineVars, searchVars, gor, acc, back, no, ds, bits>>

\* c.SetVicCost(x), c.SetSympCost(x), c.SetPointCost(x), c.SetFoundCost(x)
SetCostStep ==
  /\ \E c \in DOMAIN heap.obj, x \in CostValues :
       /\ \/ heap' = Store(heap, c, SetVicCost(Deref(heap, c), x))
          \/ heap' = Store(heap, c, SetSympCost(Deref(heap, c), x))
          \/ heap' = Store(heap, c, SetPointCost(Deref(heap, c), x))
          \/ heap' = Store(heap, c, SetFoundCost(Deref(heap, c), x))
       /\ last' = [op |-> "SetCost", obj |-> c]
  /\ UNCHANGED <<engineVars, searchVars, gor, acc, back, no, ds, bits>>

NextCopy ==
  \/ MakeCopyStep
  \/ CopyStep
  \/ FlagAtStep
  \/ RandomizeAtStep
  \/ SetCostStep

SpecCopy == InitCopy /\ [][NextCopy]_vars

\* ------------------------------------------------------------ workers in memory
\* The goroutines of the search of one tree: the workers of doFlip, the
\* reducer getBestFlip and the main loop.
Worker(px) == <<"worker", px>>

Reducer == <<"reducer", 0>>

Main == <<"main", 0>>

Procs == 0 .. (NumProc - 1)

\* The place of the initial reconstruction or.
OrAt == 1

\* The places of the reconstructions of the tuple ids.
CellsOf(h, ids) == UNION {Cells(h, ids[k]) : k \in DOMAIN ids}

\* The reads (kind "r") or writes (kind "w") of goroutine g on the places
\* cells; after tells that the place was handed off by its worker before.
Accesses(g, kind, cells, handed) ==
  {[g |-> g, kind |-> kind, cell |-> c, after |-> c \in handed] : c \in cells}

\* The reconstructions of the tuple ids.
ValuesOf(h, ids) == [k \in DOMAIN ids |-> Deref(h, ids[k])]

\* doFlip, the tests after flipRecons: the reconstruction x is kept.
kept(x, bests) ==
  \/ Cost(x) < Cost(bests[1])
  \/ Cost(x) = Cost(bests[1]) /\ AllDiff(x, bests)

\* doFlip, after flipRecons left x in the reconstruction at place rid: the
\* memory and the best set of worker px.
keepAt(h, rid, best, x, px, i) ==
  IF kept(x, ValuesOf(h, best))
  THEN [heap |-> SetIDAt(MakeCopyAt(h, rid), Len(h.obj) + 1, Label(px, i)),
        best |-> IF Cost(x) < Cost(Deref(h, best[1]))
                 THEN <<Len(h.obj) + 1>>
                 ELSE Append(best, Len(h.obj) + 1)]
  ELSE [heap |-> h, best |-> best]

\* getBestFlip, the loop over the set b: the places of best and those of b
\* that are different from all of them, from position k of b on.
RECURSIVE appendDiffAt(_, _, _, _)
appendDiffAt(h, best, b, k) ==
  IF k > Len(b) THEN best
  ELSE appendDiffAt(h,
         IF AllDiff(Deref(h, b[k]), ValuesOf(h, best))
         THEN Append(best, b[k]) ELSE best,
         b, k + 1)

\* getBestFlip, a turn of its loop on the places of the reconstructions.
mergeAt(h, best, b) ==
  IF Cost(Deref(h, b[1])) < Cost(Deref(h, best[1])) THEN b
  ELSE IF Cost(Deref(h, b[1])) = Cost(Deref(h, best[1]))
  THEN appendDiffAt(h, best, b, 1)
  ELSE best

\* The workers are spawned: or is built and has its event costs.
InitWorkers ==
  \E tk \in SearchTrees, x \in RunInputs :
    /\ ras = x.ras
    /\ ts = <<tk>>
    /\ ors = <<InitialRecons(x.ras, tk, x.cf)>>
    /\ repl = <<Replicate(InitialRecons(x.ras, tk, x.cf))>>
    /\ wk = <<>>
    /\ red = <<>>
    /\ outp = <<>>
    /\ mainN = 0
    /\ r = InitialRecons(x.ras, tk, x.cf)
    /\ fl = NoFlip
    /\ entry = 0
    /\ heap = NewRecons(EmptyHeap, InitialRecons(x.ras, tk, x.cf))
    /\ gor = [wk |-> [px \in Procs |->
                       [pc |-> "start", i |-> 0, r |-> 0, best |-> <<>>,
                        nodes |-> 0, evs |-> 0]],
              red |-> [pc |-> "recv", p |-> 0, best |-> <<>>],
              handed |-> {}]
    /\ acc = {}
    /\ last = NoOp
    /\ back = NoRead
    /\ no = NoExcl
    /\ ds = NoData
    /\ bits = NoBits

\* The places of the node list and of the event list of a worker.
ListCells(w) == {<<"lst", w.nodes>>, <<"lst", w.evs>>}

\* A worker starts: r := or.MakeCopy() and best = [or.MakeCopy()], the
\* list of the optimizable nodes of r and a new event slice.
WorkerBegin(px) ==
  /\ gor.wk[px].pc = "start"
  /\ \E h1 \in {MakeCopyAt(heap, OrAt)} :
       \E h2 \in {MakeCopyAt(h1, OrAt)} :
         /\ heap' = NewList(NewList(h2, nodesFrom(Deref(h1, Len(h1.obj)), 0)),
                            Events)
         /\ acc' = acc
              \cup Accesses(Worker(px), "r", Cells(heap, OrAt), gor.handed)
              \cup Accesses(Worker(px), "w",
                            CellsOf(h2, <<Len(heap.obj) + 1,
                                          Len(heap.obj) + 2>>)
                              \cup {<<"lst", Len(heap.lst) + 1>>,
                                    <<"lst", Len(heap.lst) + 2>>},
                            gor.handed)
  /\ gor' = [gor EXCEPT !.wk[px] =
               [pc |-> "loop", i |-> 0, r |-> Len(heap.obj) + 1,
                best |-> <<Len(heap.obj) + 2>>,
                nodes |-> Len(heap.lst) + 1, evs |-> Len(heap.lst) + 2]]
  /\ UNCHANGED <<engineVars, searchVars, last, back, no, ds, bits>>

\* The memory when a replicate of the worker w begins: r.Copy(or), but in
\* the first one.
copied(h, w) == IF w.i > 0 THEN CopyAt(h, w.r, OrAt) ELSE h

\* A replicate of a worker: r holds the content of or when Randomize is
\* called, repl the reconstructions that Randomize and flipRecons can
\* leave from it, and the one they leave is written in r.  flipRecons
\* shuffles the node list and the event list of the worker in place (the
\* writes of the two slices are in acc): the slices hold the same integers
\* after it, in another order, so their places of lst are as before.
WorkerReplicate(px) ==
  /\ gor.wk[px].pc = "loop"
  /\ \E x \in repl[1] :
       \E h1 \in {copied(heap, gor.wk[px])} :
       \E h2 \in {Store(h1, gor.wk[px].r, x)} :
       \E y \in {keepAt(h2, gor.wk[px].r, gor.wk[px].best, x, px,
                         gor.wk[px].i)} :
         /\ heap' = y.heap
         /\ gor' = [gor EXCEPT !.wk[px] =
                      [pc   |-> IF gor.wk[px].i + 1 < NumReps
                                THEN "loop" ELSE "send",
                       i    |-> gor.wk[px].i + 1,
                       r    |-> gor.wk[px].r,
                       best |-> y.best,
                       nodes |-> gor.wk[px].nodes,
                       evs  |-> gor.wk[px].evs]]
         /\ acc' = acc
              \cup Accesses(Worker(px), "r",
                            IF gor.wk[px].i > 0 THEN Cells(heap, OrAt) ELSE {},
                            gor.handed)
              \cup Accesses(Worker(px), "r",
                            Cells(heap, gor.wk[px].r)
                              \cup CellsOf(heap, gor.wk[px].best)
                              \cup ListCells(gor.wk[px]),
                            gor.handed)
              \cup Accesses(Worker(px), "w",
                            Cells(heap, gor.wk[px].r)
                              \cup ListCells(gor.wk[px])
                              \cup (IF Len(y.heap.obj) > Len(heap.obj)
                                    THEN Cells(y.heap, Len(y.heap.obj))
                                    ELSE {}),
                            gor.handed)
  /\ UNCHANGED <<engineVars, searchVars, last, back, no, ds, bits>>

\* A worker hands its best set to the reducer (out <- best and <-in), and
\* the reducer merges it with its set.
HandOff(px) ==
  /\ gor.wk[px].pc = "send"
  /\ gor.red.pc = "recv"
  /\ gor' = [gor EXCEPT
               !.wk[px].pc = "done",
               !.red = [pc   |-> IF gor.red.p + 1 < NumProc
                                 THEN "recv" ELSE "send",
                        p    |-> gor.red.p + 1,
                        best |-> IF gor.red.p = 0 THEN gor.wk[px].best
                                 ELSE mergeAt(heap, gor.red.best,
                                              gor.wk[px].best)],
               !.handed = gor.handed \cup CellsOf(heap, gor.wk[px].best)]
  /\ acc' = acc \cup Accesses(Reducer, "r",
                              IF gor.red.p = 0 THEN {}
                              ELSE CellsOf(heap, gor.red.best)
                                     \cup CellsOf(heap, gor.wk[px].best),
                              gor.handed \cup CellsOf(heap, gor.wk[px].best))
  /\ UNCHANGED <<engineVars, searchVars, heap, last, back, no, ds, bits>>

\* The reducer hands its set to the main loop, which writes it.
MainWrite ==
  /\ gor.red.pc = "send"
  /\ gor' = [gor EXCEPT !.red.pc = "done"]
  /\ outp' = writeAll(ValuesOf(heap, gor.red.best), 1, TRUE)
  /\ acc' = acc \cup Accesses(Main, "r", CellsOf(heap, gor.red.best),
                              gor.handed)
  /\ UNCHANGED <<engineVars, ts, ors, repl, wk, red, mainN, heap, last, back, no, ds, bits>>

NextWorkers ==
  \/ \E px \in Procs : WorkerBegin(px)
  \/ \E px \in Procs : WorkerReplicate(px)
  \/ \E px \in Procs : HandOff(px)
  \/ MainWrite

SpecWorkers == InitWorkers /\ [][NextWorkers]_vars

\* ------------------------------------------------------------ round trip
\* The lists of trees given to Read, and to the program that wrote the rows.
IOLists == {<<2>>, <<5>>, <<1, 6>>}

\* The raster of the round trip.
IORaster == [Obs |-> [a |-> {0}, b |-> {1}, c |-> {0}], Fill |-> 0]

InitIO ==
  \E tl \in IOLists, cf \in Configs :
    \E k \in DOMAIN tl :
      /\ ras = IORaster
      /\ ts = tl
      /\ r = InitialRecons(IORaster, tl[k], cf)
      /\ fl = NoFlip
      /\ entry = 0
      /\ ors = <<>>
      /\ repl = <<>>
      /\ wk = <<>>
      /\ red = <<>>
      /\ outp = <<>>
      /\ mainN = 0
      /\ NoHeap

\* r.Randomize(numRand, evs)
IORandomize ==
  /\ outp = <<>>
  /\ \E draws \in [Optimizable(r) -> Draws],
        picks \in [Optimizable(r) -> 0 .. (Len(Events) - 1)] :
       r' = Randomize(r, numRand, Events, draws, picks)
  /\ UNCHANGED <<ras, fl, entry, searchVars, restVars>>

\* flipRecons(r, nodes, evs)
IOFlip ==
  /\ outp = <<>>
  /\ r' \in flipRecons(r, nodesFrom(r, 0), Events)
  /\ UNCHANGED <<ras, fl, entry, searchVars, restVars>>

\* r.Write(o, true)
IOWrite ==
  /\ outp = <<>>
  /\ outp' = Write(r, TRUE)
  /\ UNCHANGED <<engineVars, ts, ors, repl, wk, red, mainN, restVars>>

\* events.Read on the rows written, with the trees, the raster and the
\* parameters of the reconstruction that was written.
IORead ==
  /\ outp # <<>>
  /\ back.kind = "none"
  /\ back' = Read(outp, ras, ts, r.Size, r.SympSize, r.UseLen)
  /\ UNCHANGED <<engineVars, searchVars, heapVars, no, ds, bits>>

NextIO == IORandomize \/ IOFlip \/ IOWrite \/ IORead

SpecIO == InitIO /\ [][NextIO]_vars

\* ------------------------------------------------------------ calls
\* The trees and the rasters of the reconstructions on which every method
\* is called: trees with a polytomy and with a childless node, terminals
\* with and without records.
CallTrees == {2, 4, 5}

CallRasters ==
  { [Obs |-> [a |-> {0, 1}, b |-> {1}, c |-> {0}], Fill |-> 1],
    [Obs |-> [a |-> {0}, b |-> {1}, c |-> {}], Fill |-> 0] }

InitCalls ==
  \E tk \in CallTrees, cf \in {x \in Configs : x.size = 1} :
    /\ ras \in CallRasters
    /\ r = InitialRecons(ras, tk, cf)
    /\ fl = NoFlip
    /\ entry = 0
    /\ NoSearch
    /\ NoHeap

NextCalls ==
  \/ FlagStep
  \/ DownPassStep
  \/ RandomizeStep
  \/ IOFlip
  \/ SetVicCostStep
  \/ SetSympCostStep
  \/ SetPointCostStep
  \/ SetFoundCostStep

SpecCalls == InitCalls /\ [][NextCalls]_vars

\* ------------------------------------------------------------ user tables
\* The most rows of a table given to Read, the header apart.
MaxRows == 2

\* The trees given to Read with the tables.
TableTrees == <<1>>

\* The rows of the tables: trees in the list and not, nodes of the tree and
\* not, event letters known and not, sets that name a daughter and not.
TableRows ==
  [Tree : {"t1", "zz"}, ID : {"x"}, Node : {"0", "1", "9"},
   Event : {"v", "s", "p", "q"}, Set : {"*", "1", "0"}]

\* A table with its header, and nothing read yet.  outp holds the rows of
\* the table.
InitTable ==
  /\ ras = IORaster
  /\ ts = TableTrees
  /\ r = OR(IORaster, TableTrees[1], 0, 0, FALSE)
  /\ fl = NoFlip
  /\ entry = 0
  /\ ors = <<>>
  /\ repl = <<>>
  /\ wk = <<>>
  /\ red = <<>>
  /\ outp = <<Header>>
  /\ mainN = 0
  /\ NoHeap

\* The user adds a row to the table.
TableRow ==
  /\ back.kind = "none"
  /\ Len(outp) <= MaxRows
  /\ \E row \in TableRows : outp' = Append(outp, row)
  /\ UNCHANGED <<engineVars, ts, ors, repl, wk, red, mainN, restVars>>

\* events.Read on the table.
TableRead ==
  /\ back.kind = "none"
  /\ back' = Read(outp, ras, ts, r.Size, r.SympSize, r.UseLen)
  /\ UNCHANGED <<engineVars, searchVars, heapVars, no, ds, bits>>

NextTable == TableRow \/ TableRead

SpecTable == InitTable /\ [][NextTable]_vars

\* ------------------------------------------------------------ data sets
\* The most records of a data set.
MaxPoints == 2

\* The numbers of columns of the rasters, and the valid points of the data
\* sets: the bounds of the longitude and of the latitude and points within.
RasterCols == {2, 4}

Points ==
  {g \in [Lon : {MinLon, MinLon + 1, 0, 90, MaxLon, MaxLon + 1},
          Lat : {MinLat - 1, MinLat, 0, MaxLat, MaxLat + 1}] : IsValid(g)}

\* A data set of two taxa with no records, and the columns and the fill of
\* the raster to make; ras holds no raster.
InitData ==
  /\ ds = <<[Name |-> "a", Recs |-> <<>>], [Name |-> "b", Recs |-> <<>>]>>
  /\ ras \in [made : {FALSE}, Cols : RasterCols, Fill : FillSet]
  /\ r = <<>>
  /\ fl = NoFlip
  /\ entry = 0
  /\ NoSearch
  /\ heap = <<>>
  /\ gor = <<>>
  /\ acc = {}
  /\ last = NoOp
  /\ back = NoRead
  /\ no = NoExcl
  /\ bits = NoBits

\* A record of a taxon is read into the data set.
DataRecord ==
  /\ ~ras.made
  /\ Len(recsFrom(ds, 1)) < MaxPoints
  /\ \E k \in DOMAIN ds, g \in Points :
       ds' = [ds EXCEPT ![k].Recs = Append(@, g)]
  /\ UNCHANGED <<engineVars, searchVars, heap, gor, acc, last, back, no, bits>>

\* raster.Rasterize(d, cols, fill)
RasterizeStep ==
  /\ ~ras.made
  /\ ras' = [made |-> TRUE, Cols |-> ras.Cols, Fill |-> ras.Fill]
              @@ Rasterize(ds, ras.Cols, ras.Fill)
  /\ UNCHANGED <<r, fl, entry, searchVars, restVars>>

NextData == DataRecord \/ RasterizeStep

SpecData == InitData /\ [][NextData]_vars

\* ------------------------------------------------------------ bitfields
\* The number of fields of the bitfields at work (Raster.Fields).
NumFields == 2

\* The bits put on: the ends of each field and bits within.
BitSet == {0, 1, 15, 16, 17, 31}

\* make(Bitfield, NumFields), twice: a and b start with every bit off.
\* u is a copy of a with Union(b) applied, once it is made; ona and onb
\* keep the bits PutOn was called with.
InitBits ==
  /\ bits = [a |-> [i \in 1 .. NumFields |-> 0],
             b |-> [i \in 1 .. NumFields |-> 0],
             u |-> <<>>, ona |-> {}, onb |-> {}]
  /\ ras = [Obs |-> <<>>, Fill |-> 0]
  /\ r = <<>>
  /\ fl = NoFlip
  /\ entry = 0
  /\ NoSearch
  /\ heap = <<>>
  /\ gor = <<>>
  /\ acc = {}
  /\ last = NoOp
  /\ back = NoRead
  /\ no = NoExcl
  /\ ds = NoData

\* a.PutOn(p)
PutOnA ==
  /\ bits.u = <<>>
  /\ \E p \in BitSet :
       bits' = [bits EXCEPT !.a = PutOn(@, p), !.ona = @ \cup {p}]
  /\ UNCHANGED <<engineVars, searchVars, heap, gor, acc, last, back, no, ds>>

\* b.PutOn(p)
PutOnB ==
  /\ bits.u = <<>>
  /\ \E p \in BitSet :
       bits' = [bits EXCEPT !.b = PutOn(@, p), !.onb = @ \cup {p}]
  /\ UNCHANGED <<engineVars, searchVars, heap, gor, acc, last, back, no, ds>>

\* u is made as a copy of a, then u.Union(b).
UnionStep ==
  /\ bits.u = <<>>
  /\ bits' = [bits EXCEPT !.u = FieldUnion(bits.a, bits.b)]
  /\ UNCHANGED <<engineVars, searchVars, heap, gor, acc, last, back, no, ds>>

NextBits == PutOnA \/ PutOnB \/ UnionStep

SpecBits == InitBits /\ [][NextBits]_vars

\* ------------------------------------------------------------ scenarios
\* The scenarios of two terminals, fill 0, event costs 1, no size penalty:
\* S2, A and B on two distinct pixels; S3, A on two pixels and B on one of
\* them.
ScenarioCosts ==
  [size |-> 0, sympSize |-> 0, useLen |-> FALSE,
   vic |-> ToCost(1), symp |-> ToCost(1), point |-> ToCost(1),
   found |-> ToCost(1)]

RasterS2 == [Obs |-> [a |-> {0}, b |-> {1}], Fill |-> 0]

RasterS3 == [Obs |-> [a |-> {0, 1}, b |-> {0}], Fill |-> 0]

ScenarioInputs ==
  { [ras |-> RasterS2, cf |-> ScenarioCosts],
    [ras |-> RasterS3, cf |-> ScenarioCosts] }

\* The search of the tree of two terminals on a scenario.
InitScenario == SearchInit(<<1>>, ScenarioInputs)

SpecScenario == InitScenario /\ [][NextSearch]_vars

\* ------------------------------------------------------------ comparisons
\* Two reconstructions that are compared: of the same tree, or of two trees
\* of the same shape.  In the raster the range of b is inside that of a.
DiffLists == {<<2, 2>>, <<2, 6>>}

DiffRaster == [Obs |-> [a |-> {0, 1}, b |-> {1}, c |-> {0}], Fill |-> 0]

DiffCosts == {x \in Configs : x.size = 0}

InitDiff ==
  \E tl \in DiffLists, cf \in DiffCosts :
    /\ ras = DiffRaster
    /\ ts = tl
    /\ ors = [k \in DOMAIN tl |-> InitialRecons(DiffRaster, tl[k], cf)]
    /\ r = InitialRecons(DiffRaster, tl[1], cf)
    /\ repl = <<>>
    /\ wk = <<>>
    /\ red = <<>>
    /\ outp = <<>>
    /\ mainN = 0
    /\ fl = NoFlip
    /\ entry = 0
    /\ NoHeap

\* The event of a node of one of the two is set, and the down-pass is run.
DiffFlag ==
  /\ \E k \in DOMAIN ors :
       \E n \in Optimizable(ors[k]), e \in 1 .. 8 :
         ors' = [ors EXCEPT ![k] = SetFlag(@, n, Events[e])]
  /\ UNCHANGED <<engineVars, restVars, ts, repl, wk, red, outp, mainN>>

\* One of the two is replaced by a fresh copy of the other one.
DiffMakeCopy ==
  /\ \E k \in DOMAIN ors, j \in DOMAIN ors :
       /\ k # j
       /\ ors' = [ors EXCEPT ![k] = MakeCopy(ors[j])]
       /\ ts' = [ts EXCEPT ![k] = ts[j]]
  /\ UNCHANGED <<engineVars, restVars, repl, wk, red, outp, mainN>>

\* One of the two gets the content of the other one, of the same tree.
DiffCopy ==
  /\ \E k \in DOMAIN ors, j \in DOMAIN ors :
       /\ k # j
       /\ ors[k].Tree = ors[j].Tree
       /\ ors' = [ors EXCEPT ![k] = Copy(@, ors[j])]
  /\ UNCHANGED <<engineVars, restVars, ts, repl, wk, red, outp, mainN>>

NextDiff == DiffFlag \/ DiffMakeCopy \/ DiffCopy

SpecDiff == InitDiff /\ [][NextDiff]_vars

\* ------------------------------------------------------------ percentages
\* The percentages given to Randomize: none, the least, the default of the
\* program, the largest ones, and two outside of the range.
Probs == {0, 1, numRand, 99, 100, -1, 101}

\* The values of rand.Intn(100).
Percent == 0 .. 99

\* The values of rand.Intn(100) taken in a call with percentage p: the
\* least one, the percentage the call works with, and the value after it.
DrawsAt(p) ==
  {0, IF p < 0 \/ p > 100 THEN 10 ELSE p,
      (IF p < 0 \/ p > 100 THEN 10 ELSE p) + 1} \cap Percent

\* The event slices given to Randomize.
RandomEvents == {<<Vic, SympL, FoundR>>, <<PointL, SympU>>}

RandomTrees == {1, 2, 5}

RandomRasters ==
  { [Obs |-> [a |-> {0, 1}, b |-> {1}, c |-> {0}], Fill |-> 0],
    [Obs |-> [a |-> {0}, b |-> {1}, c |-> {}], Fill |-> 1] }

InitRandom ==
  \E tk \in RandomTrees, cf \in Configs :
    /\ ras \in RandomRasters
    /\ r = InitialRecons(ras, tk, cf)
    /\ fl = NoFlip
    /\ entry = 0
    /\ NoSearch
    /\ NoHeap

\* r.Randomize(p, evs)
RandomizeAny ==
  /\ \E p \in Probs, evs \in RandomEvents :
       \E draws \in [Optimizable(r) -> DrawsAt(p)],
          picks \in [Optimizable(r) -> 0 .. (Len(evs) - 1)] :
         r' = Randomize(r, p, evs, draws, picks)
  /\ UNCHANGED <<ras, fl, entry, searchVars, restVars>>

NextRandom == FlagStep \/ RandomizeAny

SpecRandom == InitRandom /\ [][NextRandom]_vars

\* ------------------------------------------------------------ event flags
\* The trees of the runs whose flags are followed: two nested clades, and
\* a tree with a childless node.
FlagTrees == {2, 5}

\* The raster of those runs: a terminal without records, so that each tree
\* has a clade that is not optimizable.
FlagRaster == [Obs |-> [a |-> {0}, b |-> {1}, c |-> {}], Fill |-> 0]

\* The flags of those runs: the branches of the loops for the prohibited
\* events in evFlipRun.
FlagExclusions ==
  {x \in Exclusions : ~x.point /\ (x.found => (x.vic /\ x.symp))}

\* The rows that a user adds to a table of tree tk: rows of the root, of
\* the first clade and of a terminal.
FlagRows(tk) ==
  [Tree : {Trees[tk].ID}, ID : {"x"},
   Node : {IDOf(Trees[tk], i) : i \in 0 .. 2},
   Event : {"v", "s", "p", "f"}, Set : {"*", IDOf(Trees[tk], 2)}]

\* evFlipRun up to the spawn of the worker: OR, the cost setters, and the
\* loops for the prohibited events.
InitFlags ==
  \E tk \in FlagTrees, cf \in {x \in Configs : x.size = 1},
     e \in FlagExclusions :
    /\ ras = FlagRaster
    /\ no = e
    /\ ts = <<tk>>
    /\ r = remapFrom(InitialRecons(FlagRaster, tk, cf), e, 0)
    /\ ors = <<r>>
    /\ fl = NoFlip
    /\ entry = 0
    /\ repl = <<>>
    /\ wk = <<>>
    /\ red = <<>>
    /\ outp = <<>>
    /\ mainN = 0
    /\ heap = <<>>
    /\ gor = <<>>
    /\ acc = {}
    /\ last = NoOp
    /\ back = NoRead
    /\ ds = NoData
    /\ bits = NoBits

\* r.Randomize(numRand, evs), with the events of the run.
FlagRandomize ==
  /\ outp = <<>>
  /\ \E draws \in [Optimizable(r) -> Draws],
        picks \in [Optimizable(r) -> 0 .. (Len(makeEvents(no)) - 1)] :
       r' = Randomize(r, numRand, makeEvents(no), draws, picks)
  /\ UNCHANGED <<ras, fl, entry, searchVars, restVars>>

\* flipRecons(r, nodes, evs), with the events of the run.
FlagFlip ==
  /\ outp = <<>>
  /\ r' \in flipRecons(r, nodesFrom(r, 0), makeEvents(no))
  /\ UNCHANGED <<ras, fl, entry, searchVars, restVars>>

\* r.SetVicCost(x), r.SetSympCost(x), r.SetPointCost(x), r.SetFoundCost(x):
\* one cost is set anew in a run.
FlagSetCost ==
  /\ outp = <<>>
  /\ r.VicC = ors[1].VicC /\ r.SympC = ors[1].SympC
  /\ r.PointC = ors[1].PointC /\ r.FoundC = ors[1].FoundC
  /\ \E x \in ScalarValues :
       \/ r' = SetVicCost(r, x)
       \/ r' = SetSympCost(r, x)
       \/ r' = SetPointCost(r, x)
       \/ r' = SetFoundCost(r, x)
  /\ UNCHANGED <<ras, fl, entry, searchVars, restVars>>

\* r.Write(o, true), at the end of the run.
FlagWrite ==
  /\ outp = <<>>
  /\ outp' = Write(r, TRUE)
  /\ UNCHANGED <<engineVars, ts, ors, repl, wk, red, mainN, restVars>>

\* A user adds a row to the table that was written.
FlagRow ==
  /\ outp = Write(r, TRUE)
  /\ back.kind = "none"
  /\ \E row \in FlagRows(ts[1]) : outp' = Append(outp, row)
  /\ UNCHANGED <<engineVars, ts, ors, repl, wk, red, mainN, restVars>>

\* events.Read on the table, with the tree, the raster and the parameters
\* of the run.
FlagRead ==
  /\ outp # <<>>
  /\ back.kind = "none"
  /\ back' = Read(outp, ras, ts, r.Size, r.SympSize, r.UseLen)
  /\ UNCHANGED <<engineVars, searchVars, heapVars, no, ds, bits>>

NextFlags ==
  \/ FlagRandomize
  \/ FlagFlip
  \/ FlagSetCost
  \/ FlagWrite
  \/ FlagRow
  \/ FlagRead

SpecFlags == InitFlags /\ [][NextFlags]_vars

\* ------------------------------------------------------------ claims
\* Every node recomputed bottom-up, children before parents: the nodes of a
\* tree follow their ancestors, so the order is that of decreasing index.
RECURSIVE recompute(_, _)
recompute(r0, i) ==
  IF i < 0 THEN r0 ELSE recompute(optimize(r0, i), i - 1)

Blank(r0) ==
  [r0 EXCEPT !.Rec = [i \in DOMAIN r0.Rec |->
     IF First(Trees[r0.Tree], i) = Nil THEN r0.Rec[i]
     ELSE [r0.Rec[i] EXCEPT !.Obs = {}, !.Fill = {}, !.Cost = 0]]]

Recomputed(r0) == recompute(Blank(r0), NumNodes(Trees[r0.Tree]) - 1)

\* C1: after OR and any sequence of flag changes each followed by DownPass,
\* every record (Obs, Fill, Cost, and so the root cost) is what a fresh
\* bottom-up computation from the current Flags gives.
C1_Consistent == r = Recomputed(r)

\* C1 witness: a node below an optimizable root carries an event that only a
\* flag change can give it, and the records are the recomputed ones.
C1_Witness ==
  /\ 0 \in Optimizable(r)
  /\ \E n \in Optimizable(r) \ {0} : r.Rec[n].Flag \in SympL .. FoundR
  /\ r.Rec[0].Flag \in SympL .. FoundR
  /\ r = Recomputed(r)

\* The reconstruction in which a SetXCost method calls DownPass on node n:
\* the scalar of the family of the event of n is new, the costs are stale.
NewScalar(r0, n) ==
  LET flag == r0.Rec[n].Flag
  IN  CASE flag = Vic              -> [r0 EXCEPT !.VicC = @ + ToCost(1)]
        [] flag \in SympU .. SympR -> [r0 EXCEPT !.SympC = @ + ToCost(1)]
        [] flag \in {PointL, PointR} -> [r0 EXCEPT !.PointC = @ + ToCost(1)]
        [] flag \in {FoundL, FoundR} -> [r0 EXCEPT !.FoundC = @ + ToCost(1)]
        [] OTHER                   -> r0

\* The reconstructions on which DownPass(n) is called: a reachable one, and
\* one whose scalar was changed by a SetXCost method.
PassInputs(r0, n) == {r0, NewScalar(r0, n)}

\* C2: DownPass(n) twice in a row: the second call returns the root cost of
\* the first and leaves every record as the first call left it.
C2_Idempotent ==
  \A n \in DOMAIN r.Rec : \A x \in PassInputs(r, n) :
    LET r1 == DownPass(x, n) IN DownPass(r1, n) = r1

\* C2 witness: a reconstruction on which a first DownPass changes the
\* records of the node and of the root (the scalar is new, the costs stale).
C2_Witness ==
  \E n \in DOMAIN r.Rec \ {0} :
    LET x  == NewScalar(r, n)
        r1 == DownPass(x, n)
    IN  /\ r1.Rec[n] # x.Rec[n]
        /\ Cost(r1) # Cost(x)
        /\ DownPass(r1, n) = r1

\* C3: flipRecons never increases the cost.  From the call to the return
\* the root cost is never above the root cost at the call, and the turn of
\* the loop for a node (the flip kept or undone) never leaves the root cost
\* above what it was before the turn.
C3_NoIncrease ==
  /\ [](fl.pc # "idle" => Cost(r) <= entry)
  /\ [][fl.pc = "nodes" /\ fl.idx <= Len(fl.nodes)
          => Cost(r') <= Cost(r)]_vars

\* A call has returned with a lower root cost than at the call: at least
\* one flip was kept, and the flips of the last pass were undone.
C3_Witness ==
  /\ fl.pc = "done"
  /\ Cost(r) < entry
  /\ Len(nodesFrom(r, 0)) = 2

\* The least of a set of costs.
LeastCost(S) == CHOOSE x \in S : \A y \in S : x <= y

\* C4: at every point of the replicate loop of a worker and of the
\* reducer, all the reconstructions of the best set have the same root
\* cost, the least of the costs seen so far: those of the initial
\* reconstruction and of the replicates for a worker, those of the best
\* sets received for the reducer.
C4_SameCostMin ==
  /\ \A w \in Workers :
       wk[w].pc # "start" =>
         \A k \in 1 .. Len(wk[w].best) :
           Cost(wk[w].best[k]) = LeastCost(wk[w].seen)
  /\ \A t \in DOMAIN ts :
       red[t].p > 0 =>
         \A k \in 1 .. Len(red[t].best) :
           Cost(red[t].best[k]) =
             LeastCost({Cost(red[t].got[j][1]) : j \in 1 .. Len(red[t].got)})

\* A worker has replaced its best set twice, another worker of the tree
\* holds two reconstructions, and their reducer has received best sets of
\* different costs.
C4_Witness ==
  \E w, v \in Workers :
    /\ w[1] = v[1]
    /\ Cardinality(wk[w].seen) >= 3
    /\ Len(wk[v].best) >= 2
    /\ red[w[1]].pc = "send"
    /\ Cost(red[w[1]].got[1][1]) # Cost(red[w[1]].got[2][1])

\* The reconstructions of a best set are different from each other.
NoDuplicates(best) ==
  \A i, j \in 1 .. Len(best) : i # j => IsDiff(best[i], best[j])

\* C5: a best set never holds duplicates, in every worker and in the
\* reducer, the set it sends included.
C5_NoDuplicates ==
  /\ \A w \in Workers : NoDuplicates(wk[w].best)
  /\ \A t \in DOMAIN ts : NoDuplicates(red[t].best)

\* A reducer sends a set of two or more reconstructions, and has refused
\* a reconstruction of the same cost that was not different.
C5_Witness ==
  \E t \in DOMAIN ts :
    /\ red[t].pc = "send"
    /\ Len(red[t].best) >= 2
    /\ Cost(red[t].got[1][1]) = Cost(red[t].got[2][1])
    /\ Len(red[t].best) < Len(red[t].got[1]) + Len(red[t].got[2])

\* The orders of arrival of n best sets.
Orders(n) == {f \in [1 .. n -> 1 .. n] : \A i, j \in 1 .. n : i # j => f[i] # f[j]}

\* Two best sets hold the same reconstructions up to IsDiff.
SameUpToDiff(A, B) ==
  /\ \A i \in 1 .. Len(A) : \E j \in 1 .. Len(B) : ~IsDiff(A[i], B[j])
  /\ \A j \in 1 .. Len(B) : \E i \in 1 .. Len(A) : ~IsDiff(A[i], B[j])

\* C6: the result of the reducer does not depend on the order of arrival.
\* With the best sets of all the workers received, every other order of
\* the same sets gives the same cost and the same reconstructions up to
\* IsDiff.
C6_OrderFree ==
  \A t \in DOMAIN ts :
    red[t].p = NumProc =>
      \A f \in Orders(NumProc) :
        \E alt \in {getBestFlip([i \in 1 .. NumProc |-> red[t].got[f[i]]])} :
          /\ Cost(alt[1]) = Cost(red[t].best[1])
          /\ SameUpToDiff(alt, red[t].best)

\* A reducer has merged different best sets of the same cost, and another
\* order of arrival gives other representatives.
C6_Witness ==
  \E t \in DOMAIN ts :
    /\ red[t].pc = "send"
    /\ Len(red[t].best) >= 2
    /\ \E f \in Orders(NumProc) :
         getBestFlip([i \in 1 .. NumProc |-> red[t].got[f[i]]]) # red[t].best

\* The place of the tree of a row in the list of trees.
PlaceOf(row) == CHOOSE k \in DOMAIN ts : Trees[ts[k]].ID = row.Tree

\* C7: the rows of the output are in the order the trees were supplied.
C7_TreeOrder ==
  \A i, j \in 2 .. Len(outp) : i < j => PlaceOf(outp[i]) <= PlaceOf(outp[j])

\* C9: MakeCopy and Copy give independent state.  Whatever the operation
\* (MakeCopy, Copy, a flag change with DownPass, Randomize, SetXCost), it
\* leaves every field of every node and every scalar of every
\* reconstruction but its receiver as they were: the operations on a copy
\* leave the original unchanged, and those on the original leave the copy
\* unchanged.
C9_Independent ==
  [][\A o \in DOMAIN heap.obj :
       o # last'.obj => Deref(heap', o) = Deref(heap, o)]_vars

\* The original was written after the copy was made, and the copy too:
\* both differ from the initial reconstruction, and from each other in the
\* range, the event and the cost of the root and in a scalar.
C9_Witness ==
  /\ last.op = "SetCost"
  /\ last.obj = 1
  /\ Len(heap.obj) = 2
  /\ Deref(heap, 1) # r
  /\ Deref(heap, 2) # r
  /\ Deref(heap, 1).Rec[0].Obs # Deref(heap, 2).Rec[0].Obs
  /\ Deref(heap, 1).Rec[0].Flag # Deref(heap, 2).Rec[0].Flag
  /\ Deref(heap, 1).Rec[0].Cost # Deref(heap, 2).Rec[0].Cost
  /\ Deref(heap, 1).VicC # Deref(heap, 2).VicC

\* The places a worker keeps: its reconstruction, its best set, its node
\* list and its event list.
OwnCells(px) ==
  IF gor.wk[px].pc = "start" THEN {}
  ELSE Cells(heap, gor.wk[px].r) \cup CellsOf(heap, gor.wk[px].best)
         \cup ListCells(gor.wk[px])

\* C8: the workers are isolated.  The reconstruction, the best set, the
\* node list and the event list of a worker share no place of the memory
\* with those of another worker or with or; no place written by a worker is read or written by another
\* goroutine before the worker has handed it off; and no place of or is
\* written once the workers are spawned.
C8_Isolated ==
  /\ \A px \in DOMAIN gor.wk :
       /\ OwnCells(px) \cap Cells(heap, OrAt) = {}
       /\ \A py \in DOMAIN gor.wk : px # py => OwnCells(px) \cap OwnCells(py) = {}
  /\ \A e \in acc :
       /\ e.cell \in Cells(heap, OrAt) => e.kind = "r"
       /\ ~e.after =>
            \A px \in DOMAIN gor.wk, b \in BOOLEAN :
              Worker(px) # e.g =>
                [g |-> Worker(px), kind |-> "w", cell |-> e.cell, after |-> b]
                  \notin acc

\* The search is over: every worker has written its reconstruction, which
\* differs from or, all of them have read or, and the reducer and the main
\* loop have read places that workers wrote and handed off.
C8_Witness ==
  /\ gor # <<>>
  /\ gor.red.pc = "done"
  /\ \A px \in DOMAIN gor.wk :
       /\ Deref(heap, gor.wk[px].r) # Deref(heap, OrAt)
       /\ \E e \in acc : e.g = Worker(px) /\ e.kind = "r" /\ e.cell = <<"obj", OrAt>>
  /\ \E e \in acc :
       /\ e.g = Reducer
       /\ e.after
       /\ \E px \in DOMAIN gor.wk :
            [g |-> Worker(px), kind |-> "w", cell |-> e.cell, after |-> FALSE] \in acc
  /\ \E e \in acc : e.g = Main /\ e.after

\* C10: Write followed by Read is a round trip for the counts of events.
\* Read gives back one reconstruction from the rows that Write wrote for
\* r, and Evaluate counts on it the events it counts on r.
C10_RoundTrip ==
  back.kind # "none" =>
    /\ back.kind = "ok"
    /\ Len(back.recs) = 1
    /\ Evaluate(back.recs[1]) = Evaluate(r)


\* C11: in the rows written, a row with Event p or f names in its Set column
\* the daughter that is the point or the founder of the event (the one
\* optimize charges with point or founder), not the daughter whose range is
\* copied to the ancestor.
C11_SetNamesPoint ==
  \A k \in DOMAIN outp :
    \A i \in 0 .. (NumNodes(Trees[r.Tree]) - 1) :
      (/\ outp[k].Event \in {"p", "f"}
       /\ outp[k].Node = IDOf(Trees[r.Tree], i)
       /\ r.Rec[i].Flag \in {PointL, PointR, FoundL, FoundR})
      => outp[k].Set = IDOf(Trees[r.Tree], pointOf(r, i))


\* C12: after any sequence of SetVicCost, SetSympCost, SetPointCost and
\* SetFoundCost calls (and flag changes with their down-pass) every record,
\* the root cost included, is what a fresh bottom-up computation with the
\* current Flags and the current scalars gives; a call with the value that
\* is already set leaves the reconstruction as it is.
C12_ScalarsConsistent ==
  /\ \A i \in DOMAIN r.Rec : r.Rec[i] = Recomputed(r).Rec[i]
  /\ SetVicCost(r, r.VicC) = r
  /\ SetSympCost(r, r.SympC) = r
  /\ SetPointCost(r, r.PointC) = r
  /\ SetFoundCost(r, r.FoundC) = r

\* C12 witness: the four scalars have values that no run configuration
\* gives together, so each family was updated by its SetXCost method, and
\* nodes of two families, one below the other, carry the new costs.
C12_Witness ==
  /\ r.VicC = ToCost(2) /\ r.SympC = ToCost(2)
  /\ r.PointC = ToCost(2) /\ r.FoundC = ToCost(1)
  /\ r.Rec[0].Flag = Vic
  /\ \E n \in Optimizable(r) \ {0} : r.Rec[n].Flag \in {PointL, PointR}
  /\ r.Rec[0].Cost = Recomputed(r).Rec[0].Cost


\* The events of the families that the flags x exclude.
Excluded(x) ==
  (IF x.vic THEN {Vic} ELSE {})
    \cup (IF x.symp THEN {SympU, SympL, SympR} ELSE {})
    \cup (IF x.point THEN {PointL, PointR} ELSE {})
    \cup (IF x.found THEN {FoundL, FoundR} ELSE {})

\* The names of the events of the families that the flags x exclude.
ExcludedNames(x) ==
  (IF x.vic THEN {"v"} ELSE {}) \cup (IF x.symp THEN {"s"} ELSE {})
    \cup (IF x.point THEN {"p"} ELSE {}) \cup (IF x.found THEN {"f"} ELSE {})

\* No node of reconstruction r0 has an event that the flags x exclude.
Permitted(r0, x) == \A i \in DOMAIN r0.Rec : r0.Rec[i].Flag \notin Excluded(x)

\* C13: with any flags that leave a family permitted, no node of the
\* initial reconstruction handed to the workers, of the reconstruction of a
\* worker (after Randomize, during and after flipRecons), or of a
\* reconstruction of the best set has an event of an excluded family, and
\* no row written names one.
C13_NoExcluded ==
  /\ \A k \in DOMAIN ors : Permitted(ors[k], no)
  /\ Permitted(r, no)
  /\ \A w \in DOMAIN wk : \A k \in DOMAIN wk[w].best :
       Permitted(wk[w].best[k], no)
  /\ \A k \in DOMAIN outp : outp[k].Event \notin ExcludedNames(no)

\* C13 witness: a run with vicariance excluded in which OR assigned a
\* vicariance, the replicates are over, and the best set written holds a
\* reconstruction that a replicate left.
C13_Witness ==
  /\ no.vic /\ ~no.symp
  /\ \E i \in DOMAIN ors[1].Rec :
       OR(ras, ts[1], ors[1].Size, ors[1].SympSize, ors[1].UseLen).Rec[i].Flag
         = Vic
  /\ outp # <<>>
  /\ \E k \in DOMAIN wk[ExclWorker].best : wk[ExclWorker].best[k].ID # "or"


\* C14: Read never aborts on a table of the user: it returns
\* reconstructions or an error, and makes no access out of range, whatever
\* the rows name (a node that the tree has not, a tree that is not in the
\* list, an unknown event letter, a set that is no daughter).
C14_ReadReturns == back.kind \in {"none", "ok", "error"}


\* The reconstruction as OR made it from the raster and the tree of r.
Made == OR(ras, r.Tree, r.Size, r.SympSize, r.UseLen)

\* The terminals of the tree of r.
Terminals == {i \in DOMAIN r.Rec : First(Trees[r.Tree], i) = Nil}

\* C15: after OR, no sequence of DownPass, Randomize, flipRecons and
\* SetXCost calls (nor a flag change with its down-pass) changes the Obs,
\* Fill, Cost, Flag, SetL or SetR of the record of a terminal.
C15_LeavesFrozen == \A i \in Terminals : r.Rec[i] = Made.Rec[i]

\* C15 witness: the scalars and the events of the internal nodes are no
\* longer those of the start, a terminal with records has a cost, and the
\* terminals are as OR made them.
C15_Witness ==
  /\ r.VicC = ToCost(1) /\ r.SympC = ToCost(2)
  /\ \E n \in Optimizable(r) : r.Rec[n].Flag \in {FoundL, FoundR}
  /\ \E n \in Optimizable(r) : r.Rec[n].Flag # Made.Rec[n].Flag
  /\ \E i \in Terminals : r.Rec[i].Cost > 0
  /\ \A i \in Terminals : r.Rec[i] = Made.Rec[i]


\* The children of node n of r that have a range now.
Effective(n) ==
  {j \in DOMAIN r.Rec : AncOf(Trees[r.Tree], j) = n /\ r.Rec[j].Obs # {}}

\* C16: in every state after OR and any sequence of calls, a node with
\* descendants has SetL # -1 if and only if exactly two of its children
\* have a non-empty Obs now, and then SetL and SetR are those two children;
\* the Obs of a node is empty now if and only if it was empty after OR.
C16_EffectiveChildren ==
  /\ \A n \in (DOMAIN r.Rec) \ Terminals :
       /\ (r.Rec[n].SetL # -1) <=> (Cardinality(Effective(n)) = 2)
       /\ r.Rec[n].SetL # -1 =>
            /\ {r.Rec[n].SetL, r.Rec[n].SetR} = Effective(n)
            /\ r.Rec[n].SetL < r.Rec[n].SetR
  /\ \A n \in DOMAIN r.Rec : (r.Rec[n].Obs = {}) <=> (Made.Rec[n].Obs = {})

\* C16 witness: a tree with a node of three children of which two have
\* records, or with a node of one effective child; the optimizable node
\* carries an event that keeps the range of one daughter only.
C16_Witness ==
  /\ \E n \in (DOMAIN r.Rec) \ Terminals :
       \/ /\ r.Rec[n].SetL # -1
          /\ Cardinality({j \in DOMAIN r.Rec : AncOf(Trees[r.Tree], j) = n}) = 3
          /\ r.Rec[n].Flag \in {SympL, SympR, PointL, PointR, FoundL, FoundR}
          /\ r.Rec[n].Obs # Made.Rec[n].Obs
       \/ /\ r.Rec[n].SetL = -1
          /\ Cardinality(Effective(n)) = 1
          /\ r.Rec[n].Obs # Made.Rec[n].Obs
  /\ r.SympC = ToCost(2)


\* C17: after Rasterize, for every taxon, every fill, every number of
\* columns and every valid point, each bit of the Obs of the taxon is a bit
\* of its Fill.
C17_FillDominates ==
  ras.made => \A k \in DOMAIN ras.Names :
                ras.Names[k].Obs \subseteq ras.Names[k].Fill


\* The positions of the bitfields at work, and those IsOn finds on.
Positions == 0 .. ((NumFields * BitsPerField) - 1)

OnIn(f) == {p \in Positions : IsOn(f, p)}

\* C18: for the bitfields a and b built by PutOn, and u = a with Union(b)
\* applied: Count is the number of positions IsOn finds on (those PutOn was
\* called with), Common(a, b) is the number of positions on in both, and
\* u.Count() = a.Count() + b.Count() - a.Common(b).
C18_InclusionExclusion ==
  /\ OnIn(bits.a) = bits.ona /\ OnIn(bits.b) = bits.onb
  /\ FieldCount(bits.a) = Cardinality(bits.ona)
  /\ FieldCount(bits.b) = Cardinality(bits.onb)
  /\ FieldCommon(bits.a, bits.b) = Cardinality(bits.ona \cap bits.onb)
  /\ bits.u # <<>> =>
       /\ OnIn(bits.u) = bits.ona \cup bits.onb
       /\ FieldCount(bits.u) =
            FieldCount(bits.a) + FieldCount(bits.b)
              - FieldCommon(bits.a, bits.b)

\* C18 witness: the union is made of two different bitfields that share a
\* bit of the second field and the last bit of the first one.
C18_Witness ==
  /\ bits.u # <<>>
  /\ bits.a # bits.b
  /\ {15, 31} \subseteq (bits.ona \cap bits.onb)
  /\ bits.ona \ bits.onb # {} /\ bits.onb \ bits.ona # {}
  /\ FieldCount(bits.u) = Cardinality(bits.ona \cup bits.onb)


\* The best set that the search of the scenario gives, once the reducer has
\* the sets of all its workers.
BestFound == IF red[1].pc \in {"send", "done"} THEN red[1].best ELSE <<>>

\* The search of the scenario ended with every reconstruction of its best
\* set at root cost c, and one of them with event e at the root.
BestIs(e, c) ==
  red[1].pc \in {"send", "done"} =>
    /\ \A k \in DOMAIN BestFound : Cost(BestFound[k]) = c
    /\ \E k \in DOMAIN BestFound : BestFound[k].Rec[0].Flag = e

\* C19 as stated: in scenario S2 vicariance at the root costs 1 and full
\* sympatry costs 5, OR assigns Vic at the root, and the best reconstruction
\* has root event v and root cost 1.
C19_S2Stated ==
  ras = RasterS2 =>
    /\ vicariance(ors[1], 0) = ToCost(1)
    /\ sympatry(ors[1], 0) = ToCost(5)
    /\ ors[1].Rec[0].Flag = Vic
    /\ BestIs(Vic, ToCost(1))

\* C19 amended: in scenario S2 vicariance at the root costs 1 and full
\* sympatry costs 3 (each side pays the one pixel of the ancestor it has
\* not, and nothing of its own), OR assigns Vic at the root with cost 1,
\* and the best set of the search has root cost 1 and holds a
\* reconstruction with root event v.
C19_S2 ==
  ras = RasterS2 =>
    /\ vicariance(ors[1], 0) = ToCost(1)
    /\ sympatry(ors[1], 0) = ToCost(3)
    /\ ors[1].Rec[0].Flag = Vic
    /\ Cost(ors[1]) = ToCost(1)
    /\ BestIs(Vic, ToCost(1))

\* C19 witness: the search of S2 is over and its rows are written, with a
\* row of event v for the root.
C19_Witness ==
  /\ ras = RasterS2
  /\ red[1].pc = "done"
  /\ \E k \in DOMAIN outp : outp[k].Node = "0" /\ outp[k].Event = "v"
  /\ \A k \in DOMAIN BestFound : Cost(BestFound[k]) = ToCost(1)


\* C20 as stated: in scenario S3 vicariance at the root costs 2 and full
\* sympatry costs 3, OR assigns Vic at the root, and the best
\* reconstruction of the flip search has root event v and root cost 2.
C20_S3Stated ==
  ras = RasterS3 =>
    /\ vicariance(ors[1], 0) = ToCost(2)
    /\ sympatry(ors[1], 0) = ToCost(3)
    /\ ors[1].Rec[0].Flag = Vic
    /\ BestIs(Vic, ToCost(2))

\* C20 amended: in scenario S3 vicariance at the root costs 4 (one pixel of
\* each daughter is in the fill of the other, and B, contained in A, pays 1
\* more) and full sympatry costs 2, so OR assigns SympU at the root with
\* cost 2, and the best set of the flip search has root cost 1 and holds
\* only reconstructions with a point sympatry at the root whose point is B.
C20_S3 ==
  ras = RasterS3 =>
    /\ vicariance(ors[1], 0) = ToCost(4)
    /\ sympatry(ors[1], 0) = ToCost(2)
    /\ ors[1].Rec[0].Flag = SympU
    /\ Cost(ors[1]) = ToCost(2)
    /\ BestIs(PointR, ToCost(1))
    /\ \A k \in DOMAIN BestFound : BestFound[k].Rec[0].Flag = PointR

\* C20 witness: the search of S3 is over and its rows are written, with a
\* row of event p for the root that names A, the daughter that is not the
\* point.
C20_Witness ==
  /\ ras = RasterS3
  /\ red[1].pc = "done"
  /\ \E k \in DOMAIN outp :
       outp[k].Node = "0" /\ outp[k].Event = "p" /\ outp[k].Set = "1"
  /\ \A k \in DOMAIN BestFound : Cost(BestFound[k]) = ToCost(1)


\* The range the event e gives to a node with the daughters x and y: field
\* f (Obs or Fill) of the records rec.
RangeOf(rec, e, x, y, f) ==
  IF e \in {Vic, SympU} THEN rec[x][f] \cup rec[y][f]
  ELSE IF e \in {SympL, PointR, FoundR} THEN rec[x][f]
  ELSE rec[y][f]

\* The cost of the event of node n of r0, and the size penalty of the node.
EventCostOf(r0, n) ==
  LET e == r0.Rec[n].Flag
  IN  IF e = Vic THEN vicariance(r0, n)
      ELSE IF e \in {SympU, SympL, SympR} THEN sympatry(r0, n)
      ELSE IF e = PointL THEN point(r0, n, r0.Rec[n].SetL)
      ELSE IF e = PointR THEN point(r0, n, r0.Rec[n].SetR)
      ELSE IF e = FoundL THEN founder(r0, n, r0.Rec[n].SetL)
      ELSE founder(r0, n, r0.Rec[n].SetR)

SizeOf(r0, n) ==
  IF r0.Size > 0
  THEN (IF r0.UseLen THEN LenOf(Trees[r0.Tree], n) ELSE 1)
         * ((ToCost(Cardinality(r0.Rec[n].Obs) - 1)) \div r0.Size)
  ELSE 0

\* C21: after the down-pass has processed an optimizable node, its Obs and
\* Fill are those its Flag takes from its two daughters (both for Vic and
\* SympU, SetL for SympL, PointR and FoundR, SetR for SympR, PointL and
\* FoundL), and its Cost is the sum of the costs of the two daughters, of
\* the cost of the event and of the size penalty.
C21_RangeByFlag ==
  \A n \in Optimizable(r) :
    /\ r.Rec[n].Flag \in 1 .. 8
    /\ r.Rec[n].Obs = RangeOf(r.Rec, r.Rec[n].Flag, r.Rec[n].SetL,
                              r.Rec[n].SetR, "Obs")
    /\ r.Rec[n].Fill = RangeOf(r.Rec, r.Rec[n].Flag, r.Rec[n].SetL,
                               r.Rec[n].SetR, "Fill")
    /\ r.Rec[n].Cost = r.Rec[r.Rec[n].SetL].Cost + r.Rec[r.Rec[n].SetR].Cost
                         + EventCostOf(r, n) + SizeOf(r, n)

\* C21 witness: a size penalty is charged on an optimizable node whose
\* event gives it the range of its right daughter, which is not the range
\* of both, and the daughters have a cost of their own.
C21_Witness ==
  \E n \in Optimizable(r) :
    /\ r.Rec[n].Flag \in {PointL, FoundL, SympR}
    /\ r.Rec[n].Obs = r.Rec[r.Rec[n].SetR].Obs
    /\ r.Rec[n].Obs # r.Rec[r.Rec[n].SetL].Obs \cup r.Rec[r.Rec[n].SetR].Obs
    /\ SizeOf(r, n) > 0
    /\ r.Rec[r.Rec[n].SetL].Cost + r.Rec[r.Rec[n].SetR].Cost > 0
    /\ r.Rec[n].Cost = r.Rec[r.Rec[n].SetL].Cost + r.Rec[r.Rec[n].SetR].Cost
                         + EventCostOf(r, n) + SizeOf(r, n)


\* The reconstruction OR gives for the tree, the raster and the parameters
\* of the reconstruction at work.
ORof == OR(ras, r.Tree, r.Size, r.SympSize, r.UseLen)

\* The children of node n of tree t, and the sum of the costs of the nodes
\* of S in the records rec.
Children(t, n) == {j \in Nodes(t) : AncOf(t, j) = n}

RECURSIVE SumCost(_, _)
SumCost(rec, S) ==
  IF S = {} THEN 0
  ELSE LET j == CHOOSE x \in S : TRUE
       IN  rec[j].Cost + SumCost(rec, S \ {j})

\* The children of node n with a non-empty Obs.
WithRecords(r0, n) ==
  {j \in Children(Trees[r0.Tree], n) : r0.Rec[j].Obs # {}}

\* C22: in the reconstruction OR gives, an internal node that has not
\* exactly two children with a non-empty Obs has SetL = SetR = -1, Flag
\* Undef and the sum of the costs of all its children as Cost; a node with
\* exactly two has Flag Vic when the vicariance cost is strictly smaller
\* than the full sympatry cost and SympU otherwise, and its Cost is the sum
\* of the costs of its children, the cost of that event and the size
\* penalty.
C22_InitialAssignment ==
  \A o \in {ORof} : \A n \in DOMAIN o.Rec :
    TermOf(Trees[o.Tree], n) = "" =>
      IF Cardinality(WithRecords(o, n)) # 2
      THEN /\ o.Rec[n].SetL = -1
           /\ o.Rec[n].SetR = -1
           /\ o.Rec[n].Flag = Undef
           /\ o.Rec[n].Cost = SumCost(o.Rec, Children(Trees[o.Tree], n))
      ELSE /\ o.Rec[n].Flag
                = (IF vicariance(o, n) < sympatry(o, n) THEN Vic ELSE SympU)
           /\ o.Rec[n].Cost
                = SumCost(o.Rec, Children(Trees[o.Tree], n))
                    + (IF vicariance(o, n) < sympatry(o, n)
                       THEN vicariance(o, n) ELSE sympatry(o, n))
                    + SizeOf(o, n)

\* C22 witness: OR met a tie of the two costs at a node, which has SympU
\* and a size penalty, and the tree has a node that is not optimizable,
\* with a cost that comes from its children.
C22_Witness ==
  \E o \in {ORof} :
    /\ \E n \in Optimizable(o) :
         /\ vicariance(o, n) = sympatry(o, n)
         /\ o.Rec[n].Flag = SympU
         /\ SizeOf(o, n) > 0
    /\ \E n \in DOMAIN o.Rec :
         /\ TermOf(Trees[o.Tree], n) = ""
         /\ o.Rec[n].SetL = -1
         /\ o.Rec[n].Cost > 0


\* The root costs that a single flip of r0 gives: the event of one
\* optimizable node set to another event, and the down-pass run from it.
FlipCosts(r0) ==
  {Cost(SetFlag(r0, n, Events[e])) :
     <<n, e>> \in {x \in Optimizable(r0) \X (1 .. 8) :
                     Events[x[2]] # r0.Rec[x[1]].Flag}}

\* C23: when flipRecons returns, no flip of the event of a single node of
\* its list to another event of its list, followed by the down-pass, gives
\* a root cost under the cost returned.
C23_LocalOptimum ==
  fl.pc = "done" => \A c \in FlipCosts(r) : c >= Cost(r)

\* C23 witness: a call has returned after it kept a flip, on a tree of two
\* optimizable nodes, and among the single flips of the reconstruction it
\* left there is one of the same cost and one of a higher cost.
C23_Witness ==
  /\ fl.pc = "done"
  /\ Cost(r) < entry
  /\ Cardinality(Optimizable(r)) = 2
  /\ Cost(r) \in FlipCosts(r)
  /\ \E c \in FlipCosts(r) : c > Cost(r)


\* The reconstructions that are compared.
Compared == {ors[k] : k \in DOMAIN ors}

\* Node n has the same event in x and y: two events of sympatry with the
\* same Obs and Fill, or the same event, not one of sympatry.
SameEvent(x, y, n) ==
  \/ /\ x.Rec[n].Flag \in {SympU, SympL, SympR}
     /\ y.Rec[n].Flag \in {SympU, SympL, SympR}
     /\ x.Rec[n].Obs = y.Rec[n].Obs
     /\ x.Rec[n].Fill = y.Rec[n].Fill
  \/ /\ x.Rec[n].Flag = y.Rec[n].Flag
     /\ x.Rec[n].Flag \notin {SympU, SympL, SympR}

\* C24: IsDiff on two reconstructions of the same tree is false exactly
\* when every internal node has the same event in both (events of sympatry
\* are the same when Obs and Fill are equal); on reconstructions of two
\* trees it is true; and a fresh MakeCopy is not different from its
\* original.
C24_IsDiff ==
  \A x \in Compared :
    /\ ~IsDiff(MakeCopy(x), x)
    /\ ~IsDiff(x, MakeCopy(x))
    /\ \A y \in Compared :
         IF x.Tree # y.Tree THEN IsDiff(x, y)
         ELSE ~IsDiff(x, y) <=>
                \A n \in DOMAIN x.Rec :
                  Children(Trees[x.Tree], n) # {} => SameEvent(x, y, n)

\* C24 witness: the two reconstructions are of the same tree and are not
\* different, while a node has SympU in one and SympL or SympR in the
\* other, and another internal node has in both the same event, which is
\* not one of sympatry.
C24_Witness ==
  /\ ors[1].Tree = ors[2].Tree
  /\ ~IsDiff(ors[1], ors[2])
  /\ \E n \in DOMAIN ors[1].Rec :
       ors[1].Rec[n].Flag = SympU /\ ors[2].Rec[n].Flag \in {SympL, SympR}
  /\ \E n \in DOMAIN ors[1].Rec :
       ors[1].Rec[n].Flag \in {PointL, PointR, FoundL, FoundR}


\* The position in the event slice evs of an event that node n of r0 has
\* not, counted from 0.
OtherPick(r0, evs, n) ==
  CHOOSE j \in 0 .. (Len(evs) - 1) : evs[j + 1] # r0.Rec[n].Flag

\* The values of rand.Intn(100) for which Randomize(p, evs) modifies the
\* optimizable node n of r0: the node gets the event the second draw picks,
\* one it has not.  The other nodes draw 99.
Modifying(r0, p, evs, n) ==
  {d \in Percent :
     Randomize(r0, p, evs,
               [i \in Optimizable(r0) |-> IF i = n THEN d ELSE 99],
               [i \in Optimizable(r0) |-> OtherPick(r0, evs, i)]).Rec[n].Flag
       = evs[OtherPick(r0, evs, n) + 1]}

\* The percentage Randomize works with.
Clamped(p) == IF p < 0 \/ p > 100 THEN 10 ELSE p

\* C25: Randomize(prob, evs) changes nothing with prob = 0, takes a prob
\* outside of [0, 100] as 10, and modifies each optimizable node for
\* exactly prob of the 100 values of its random draw; the nodes that are
\* not optimizable are never modified, every optimizable node keeps its
\* event or gets one of evs, and the costs stay consistent.
C25_Randomize ==
  \A p \in Probs, evs \in RandomEvents :
    /\ \A n \in Optimizable(r) :
         Cardinality(Modifying(r, p, evs, n)) = Clamped(p)
    /\ \A draws \in [Optimizable(r) -> DrawsAt(p)] :
         \A x \in {Randomize(r, p, evs, draws,
                             [i \in Optimizable(r) |-> OtherPick(r, evs, i)])} :
           /\ p = 0 => x = r
           /\ x = Randomize(r, Clamped(p), evs, draws,
                            [i \in Optimizable(r) |-> OtherPick(r, evs, i)])
           /\ \A n \in DOMAIN r.Rec :
                \/ x.Rec[n].Flag = r.Rec[n].Flag
                \/ /\ n \in Optimizable(r)
                   /\ \E k \in DOMAIN evs : x.Rec[n].Flag = evs[k]
           /\ x = Recomputed(x)


\* A row of the table names a tree of the list (the header is kept).
OfKnownTree(row) ==
  \/ row = Header
  \/ \E k \in DOMAIN ts : ToLower(Trees[ts[k]].ID) = ToLower(row.Tree)

\* C26: the rows of a table whose Tree is no tree of the list are ignored
\* wherever they are: Read gives what it gives for the table without them
\* (they make no reconstruction and change no Flag), also when they follow
\* rows of a tree of the list.
C26_UnknownIgnored ==
  back.kind # "none" =>
    back = Read(SelectSeq(outp, OfKnownTree), ras, ts,
                r.Size, r.SympSize, r.UseLen)


\* C27: flipRecons terminates: whatever the tree, the reconstruction at the
\* call and the arrangements the shuffles leave, a call that is made
\* returns, its outer loop run a finite number of times.
C27_Terminates == (fl.pc \in {"shuffle", "nodes"}) ~> (fl.pc = "done")

\* C27 witness: a call has returned after more than one pass kept a flip:
\* the root cost is lower than at the call by more than the least step
\* between two costs, on a tree of two optimizable nodes.
C27_Witness ==
  /\ fl.pc = "done"
  /\ Cost(r) + ToCost(1) < entry
  /\ Cardinality(Optimizable(r)) = 2


\* The workers of tree k that have sent their best set.
Sent(k) == {w \in Workers : w[1] = k /\ wk[w].pc = "done"}

\* The reducers that have sent their best set to the main loop.
Merged == {k \in DOMAIN red : red[k].pc = "done"}

\* Every goroutine of the search is over: the workers have sent, the
\* reducers have received NumProc sets and sent a set that is not empty,
\* and the main loop has received a set for every tree.
HandedOff ==
  /\ \A w \in Workers : wk[w].pc = "done"
  /\ \A k \in DOMAIN red :
       /\ red[k].pc = "done"
       /\ red[k].p = NumProc
       /\ red[k].best # <<>>
  /\ mainN = Len(ts)

\* C28: the hand-off of the search completes.  At every moment the reducer
\* of a tree has received one set from each worker that has sent (a worker
\* sends once), never more than NumProc, it sends only after NumProc sets,
\* and the main loop has received one set from each reducer that has sent;
\* and under every interleaving all the goroutines end, none blocked on a
\* channel.
C28_HandOff ==
  /\ [](\A k \in DOMAIN red :
          /\ red[k].p = Cardinality(Sent(k))
          /\ Len(red[k].got) = red[k].p
          /\ red[k].p <= NumProc
          /\ red[k].pc \in {"send", "done"} =>
               red[k].p = NumProc /\ red[k].best # <<>>)
  /\ [](mainN = Cardinality(Merged))
  /\ <>[]HandedOff

\* C28 witness: the search of two trees is over, the main loop has written
\* the sets of both, and a reducer has merged the sets of its workers into
\* a set of two reconstructions.
C28_Witness ==
  /\ HandedOff
  /\ Len(ts) = 2
  /\ outp # <<>>
  /\ \E k \in DOMAIN red : Len(red[k].best) >= 2


\* The reconstructions of the state of a run whose flags are followed: the
\* one searched, the one OR and the loops for the prohibited events left,
\* and those that Read returned.
Followed ==
  {r} \cup {ors[k] : k \in DOMAIN ors} \cup {back.recs[k] : k \in DOMAIN back.recs}

\* Node n of r0 is not optimizable and has descendants.
FixedClade(r0, n) ==
  r0.Rec[n].SetL = -1 /\ First(Trees[r0.Tree], n) # Nil

\* C29: after OR, and through the rows of Read, the loops for the
\* prohibited events, Randomize, flipRecons and the cost setters, every
\* optimizable node has one of the eight events as its Flag, never Undef,
\* and every other node (a non-optimizable internal node, a leaf) has the
\* Flag Undef.
C29_FlagOptimizable ==
  \A x \in Followed :
    \A n \in DOMAIN x.Rec :
      IF x.Rec[n].SetL # -1
      THEN /\ x.Rec[n].Flag # Undef
           /\ \E k \in DOMAIN Events : x.Rec[n].Flag = Events[k]
      ELSE x.Rec[n].Flag = Undef

\* A run with a prohibited event whose reconstruction has a clade that is
\* not optimizable, an event on an optimizable node that neither OR nor the
\* loops for the prohibited events assign, and a cost scalar that was set;
\* Read returned a reconstruction with an event of a row, from a table that
\* has a row of a node that is not optimizable.
C29_Witness ==
  /\ no.vic
  /\ \E n \in DOMAIN r.Rec : FixedClade(r, n) /\ r.Rec[n].Flag = Undef
  /\ \E n \in Optimizable(r) : r.Rec[n].Flag \in {SympL, SympR, FoundL}
  /\ r.SympC # ors[1].SympC
  /\ back.kind = "ok"
  /\ \E k \in DOMAIN back.recs :
       /\ \E n \in Optimizable(back.recs[k]) :
            back.recs[k].Rec[n].Flag \in {SympL, SympR, FoundL}
       /\ \E j \in 2 .. Len(outp) :
            \E n \in DOMAIN back.recs[k].Rec :
              /\ outp[j].Node = IDOf(Trees[back.recs[k].Tree], n)
              /\ outp[j].Event = "v"
              /\ First(Trees[back.recs[k].Tree], n) = Nil


\* C30: right after OR, for any Size, SympSize and UseLen, DownPass from
\* any node leaves every record as OR made it: no Obs, Fill, Flag or Cost
\* changes, and no SetL or SetR does.
C30_ORFixedPoint ==
  \A o \in {ORof} :
    \A n \in DOMAIN o.Rec :
      \A x \in {DownPass(o, n)} :
        \A i \in DOMAIN o.Rec :
          /\ x.Rec[i].Obs = o.Rec[i].Obs
          /\ x.Rec[i].Fill = o.Rec[i].Fill
          /\ x.Rec[i].Flag = o.Rec[i].Flag
          /\ x.Rec[i].Cost = o.Rec[i].Cost
          /\ x.Rec[i].SetL = o.Rec[i].SetL
          /\ x.Rec[i].SetR = o.Rec[i].SetR

\* OR with a size penalty scaled by the branch lengths, on a tree with two
\* optimizable nodes, one inside the other, both with a positive penalty.
C30_Witness ==
  /\ r.Size > 0
  /\ r.UseLen
  /\ \E o \in {ORof} :
       \E n \in Optimizable(o), i \in Optimizable(o) :
         /\ AncOf(Trees[o.Tree], i) = n
         /\ SizeOf(o, n) > 0
         /\ SizeOf(o, i) > 0
         /\ o.Rec[n].Flag # o.Rec[i].Flag

====
